---- MODULE Spec2Model ----
(***************************************************************************)
(* The master of a gorse cluster (src/master/master.go).                   *)
(*                                                                         *)
(* The specifications of this module:                                      *)
(*   Spec         the scheduler goroutine (Master.Loop) with its fit and   *)
(*                collection jobs and the two model slots behind their     *)
(*                mutexes, under store and fit failures.                   *)
(*   SpecRpc      the same loop with one concurrent RPC handler reading    *)
(*                the model slots.                                         *)
(*   SpecRpcFail  the loop and the handler with a failing store or fit.    *)
(*   SpecLease    the cluster registry: the TTL cache of leases, the       *)
(*                mirror nodesMap behind nodesMutex, the registration      *)
(*                handlers, the expiry sweep and GetCluster.               *)
(*   SpecLeaseFair  the registry under the scheduling of its goroutines.   *)
(*   SpecTopK     the Top-K accumulator the collection jobs push into.     *)
(*   SpecSimilar  one run of CollectSimilar with its pool of workers.      *)
(*   SpecPopular  one run of CollectPopItem on a list of feedback events.  *)
(*   SpecPeriod   the loop period Loop computes from the five periods.     *)
(*   SpecStale    one call of IsStale on a stored clock text.              *)
(*   SpecPage     a reader paging through a MongoDB collection.            *)
(*   SpecProgress the goroutines of CollectSimilar and the channel they    *)
(*                report progress on, under the Go scheduler.              *)
(* Each specification leaves the other machines' variables untouched.      *)
(***************************************************************************)
EXTENDS Integers, Sequences, FiniteSets, TLC

(***************************************************************************)
(* Bounds of the model.                                                    *)
(***************************************************************************)
\* rand.Int() of NewMaster draws from 0..MaxRand, and MaxRand is also the
\* largest value of the (scaled down) Go int: MaxRand + 1 wraps to MinInt.
MaxRand == 1
\* The scheduler's clock stops at MaxNow minutes.
MaxNow == 2
\* The scheduler's clock counts ticks, TicksPerMinute of them to the minute:
\* what an iteration does besides sleeping takes one tick.
TicksPerMinute == 4
\* At most MaxFaults operations of the stores, the loaders and the codecs fail
\* in one run.
MaxFaults == 1

\* A Top-K accumulator is pushed into at most MaxPushes times, and the list
\* sizes NumPopular, NumLatest, NumSimilar it is made with are in 1..MaxK.
MaxPushes == 4
MaxK == 2
\* CollectSimilar is run on datasets of MaxItems items, with pools of
\* 1..MaxJobs workers (cfg.Master.Jobs).
MaxItems == 3
MaxJobs == 2
\* CollectPopItem is run on at most MaxEvents feedback events.
MaxEvents == 3
\* The refresh periods of a configuration are 1..MaxPeriod minutes.
MaxPeriod == 4
\* Collections are read in pages of 1..MaxPage records.
MaxPage == 2
\* The progress channel of CollectSimilar buffers ChanSize values (1000 in
\* the code); the dataset has up to MaxItems items, more than ChanSize.
ChanSize == 1

\* The registry's clock stops at MaxClock seconds.
MaxClock == 3
\* cfg.Master.ClusterMetaTimeout is drawn from 1..MaxTTL seconds.
MaxTTL == 2

MaxInt == MaxRand
MinInt == -(MaxRand + 1)

(***************************************************************************)
(* State.                                                                  *)
(***************************************************************************)
VARIABLES
  \* ---- scheduler and model slots (Spec) ----
  now,                \* wall clock, ticks
  pc,                 \* position of the Loop goroutine ("dead": log.Fatalf ran)
  cfg,                \* m.cfg: refresh periods and list sizes
  cacheStore,         \* CacheStore strings of namespace GlobalMeta
  cacheLists,         \* CacheStore lists: namespace -> tick of the last complete write
  stale,              \* the five isXStale locals of the current iteration
  dataSet,            \* Loop's local dataSet: "none", "empty" or "loaded"
  rankDataSet,        \* Loop's local rankDataSet: "none", "empty" or "loaded"
  loads,              \* history: calls of cf.LoadDataFromDatabase in this iteration
  ran,                \* history: per job, 0 if it was not called in this iteration,
                      \* else the number of the load whose data it was handed
  nextModel,          \* the nextModel local of FitRankModel / FitCFModel
  rankModel, rankModelVersion, rankModelMutex,
  cfModel, matchModelVersion, matchModelMutex,
  initVersion,        \* history: the versions NewMaster drew
  published,          \* history: per slot, the (artifact, version, tick) of each publish
  faults,             \* history: failures so far
  lastJob,            \* history: the job that returned last and its clock before/after
  rpc,                \* the RPC handler in flight
  resp,               \* the response the RPC handler returned last
  \* ---- cluster registry (SpecLease) ----
  clock,              \* wall clock, seconds
  timeout,            \* cfg.Master.ClusterMetaTimeout, seconds
  ttlCache,           \* items of m.ttlCache: address -> lease
  nodesMap, nodesMutex,
  reg,                \* per address: the value of a registration whose new-item
                      \* callback is still to run ("": no such registration)
  sweep,              \* the item the expiry goroutine has removed and whose
                      \* expiration callback is still to run
  gc,                 \* the GetCluster handler in flight
  cluster,            \* the response GetCluster returned in the last step
  notes,              \* history: per address, the notifications fired
  lastSet,            \* history: per address, the second of its last registration
  upAt,               \* history: per address, the second of its last NodeUp
  \* ---- Top-K accumulator (SpecTopK) ----
  topK,               \* capacity the accumulator was made with
  topAcc,             \* the (id, score) pairs the accumulator retains
  topOut,             \* what PopAll returned: the ids, first the highest score
  topPc,              \* "push": pushes go on; "popped": PopAll has returned
  topSeen,            \* history: per id, the highest score pushed (0: never pushed)
  topCount,           \* history: number of pushes
  \* ---- CollectSimilar (SpecSimilar) ----
  itemFeedback,       \* dataset.ItemFeedback: item index -> indices of its users
  numSimilar,         \* cfg.Similar.NumSimilar
  simJobs,            \* cfg.Master.Jobs
  task,               \* per item index, its worker task: "todo", "running",
                      \* "done" (returned nil) or "failed" (returned an error)
  pushed,             \* per item index, what its task pushed into nearItems
  simList,            \* CacheStore lists of SimilarItems, per item id
  simPc,              \* CollectSimilar: "parallel", "clock" or "done"
  simClock,           \* CollectSimilarTime was written by this run
  snapshot,           \* history: dataset.ItemFeedback as CollectSimilar got it
  taken,              \* history: per item index, the worker tasks started on it
  wrote,              \* history: per item id, the item indices whose task
                      \* stored a list under it, in order
  \* ---- CollectPopItem (SpecPopular) ----
  popFeedback,        \* the feedback argument: events [item, age in days]
  numPopular,         \* cfg.Popular.NumPopular
  timeWindow,         \* cfg.Popular.TimeWindow, in days
  popNow,             \* the time the job runs at
  popCount,           \* the count map: [has, n] per item id
  popFilters,         \* the popItems map: [exists, acc] per label
  popLists,           \* CacheStore lists of PopularItems, per label
  popPc,              \* "count", "push", "write", "clock" or "done"
  popClock,           \* CacheStore string GlobalMeta/CollectPopularTime
  \* ---- the loop period (SpecPeriod) ----
  periods,            \* the five refresh periods of m.cfg, in minutes
  loopPeriod,         \* Loop's local loopPeriod; 0 before it is computed
  slept,              \* minutes the last time.Sleep of Loop took; 0 before it
  \* ---- one IsStale call (SpecStale) ----
  staleText,          \* what the CacheStore holds under the clock key
  staleNow,           \* time.Now() of the call, in ticks
  staleLimit,         \* the timeLimit argument, in minutes
  staleResult,        \* "none" before the call, then what IsStale returned
  \* ---- paging through a collection (SpecPage) ----
  pgKind,             \* "items", "users" or "feedback": the Get call used
  pgStore,            \* the keys of the records of the collection
  pgType,             \* the feedbackType argument; "" for nil
  pgN,                \* the page size n
  pgCursor,           \* the cursor of the next call
  pgOut,              \* the keys of the records returned so far, in order
  pgCalls,            \* the calls made so far
  pgPc,               \* "call", or "done" once a call returned cursor ""
  \* ---- the progress channel of CollectSimilar (SpecProgress) ----
  progItems,          \* dataset.ItemCount()
  progJobs,           \* cfg.Master.Jobs, the workers of base.Parallel
  progFaults,         \* the SetList failures still to come
  nextJob,            \* the next jobId base.Parallel hands out
  worker,             \* each worker goroutine's position
  parErr,             \* a worker function has returned an error
  completed,          \* the channel: the values buffered, and closed or not
  completedCount,     \* the reporter's counter
  reporter,           \* the reporter goroutine: "select" or "returned"
  logged,             \* the count of the reporter's last log line; -1: none
  progPc,             \* CollectSimilar: "parallel", "close", "clock", "done",
                      \* or "panic" (send on, or close of, a closed channel)
  closes,             \* the close(completed) calls made
  sent,               \* the sends that have completed
  parked              \* a worker reached its send with the buffer full

loopVars == <<now, pc, cfg, cacheStore, cacheLists, stale, dataSet, rankDataSet,
              loads, ran, nextModel,
              rankModel, rankModelVersion, rankModelMutex,
              cfModel, matchModelVersion, matchModelMutex,
              initVersion, published, lastJob, rpc, resp, faults>>

leaseVars == <<clock, timeout, ttlCache, nodesMap, nodesMutex, reg, sweep, gc,
               cluster, notes, lastSet, upAt>>

topVars == <<topK, topAcc, topOut, topPc, topSeen, topCount>>

simVars == <<itemFeedback, numSimilar, simJobs, task, pushed, simList, simPc, simClock,
             snapshot, taken, wrote>>

popVars == <<popFeedback, numPopular, timeWindow, popNow, popCount, popFilters,
             popLists, popPc, popClock>>

perVars == <<periods, loopPeriod, slept>>

\* The machines that have no part in the loop, the registry or the jobs.
staleVars == <<staleText, staleNow, staleLimit, staleResult>>

pageVars == <<pgKind, pgStore, pgType, pgN, pgCursor, pgOut, pgCalls, pgPc>>

progVars == <<progItems, progJobs, progFaults, nextJob, worker, parErr, completed,
              completedCount, reporter, logged, progPc, closes, sent, parked>>

extraVars == <<perVars, staleVars, pageVars, progVars>>

jobVars == <<topVars, simVars, popVars, extraVars>>

vars == <<loopVars, leaseVars, jobVars>>


(***************************************************************************)
(* Configuration, cache keys, values.                                      *)
(***************************************************************************)
\* The configurations the scheduler is run under: refresh periods in minutes
\* (cfg.CF.FitPeriod, cfg.Rank.FitPeriod, cfg.Similar/Popular/Latest.UpdatePeriod)
\* and list sizes (NumPopular, NumLatest, NumSimilar).
Configs ==
  { [cfFit |-> 2, rankFit |-> 2, similar |-> 2, popular |-> 1, latest |-> 1,
     numPopular |-> 1, numLatest |-> 1, numSimilar |-> 1],
    [cfFit |-> 2, rankFit |-> 1, similar |-> 1, popular |-> 1, latest |-> 2,
     numPopular |-> 1, numLatest |-> 0, numSimilar |-> 1],
    [cfFit |-> 2, rankFit |-> 1, similar |-> 2, popular |-> 2, latest |-> 2,
     numPopular |-> 1, numLatest |-> 1, numSimilar |-> 1],
    [cfFit |-> 2, rankFit |-> 2, similar |-> 2, popular |-> 1, latest |-> 2,
     numPopular |-> 0, numLatest |-> 1, numSimilar |-> 0] }

CollectPopularTime == "CollectPopularTime"
CollectLatestTime == "CollectLatestTime"
CollectSimilarTime == "CollectSimilarTime"
LastFitRankModelTime == "LastFitRankModelTime"
LastFitCFModelTime == "LastFitCFModelTime"
LatestRankModelVersion == "LatestRankModelVersion"
LatestCFModelVersion == "LatestCFModelVersion"

ClockKeys == {CollectPopularTime, CollectLatestTime, CollectSimilarTime,
              LastFitRankModelTime, LastFitCFModelTime}
MetaKeys == ClockKeys \cup {LatestRankModelVersion, LatestCFModelVersion}

PopularItems == "PopularItems"
LatestItems == "LatestItems"
SimilarItems == "SimilarItems"
ListSpaces == {PopularItems, LatestItems, SimilarItems}

\* A stored string: absent, a timestamp, a hexadecimal version, or other text.
Absent == [kind |-> "absent", val |-> 0]
Garbage == [kind |-> "garbage", val |-> 0]

\* base.Now(): the current time as text.
Now(t) == [kind |-> "time", val |-> t]

\* fmt.Sprintf("%x", version)
Hex(v) == [kind |-> "hex", val |-> v]

\* dateparse.ParseAny: the instant a timestamp text denotes, an error otherwise.
ParseAny(text) ==
  IF text.kind = "time" THEN [ok |-> TRUE, t |-> text.val]
  ELSE [ok |-> FALSE, t |-> 0]

\* cacheStore.GetString: the error of the store when it is down, the error
\* "redis: nil" for a key that was never set, the stored text otherwise.
GetString(store, key, down) ==
  IF down THEN [err |-> "unavailable", text |-> Absent]
  ELSE IF store[key].kind = "absent" THEN [err |-> "redis: nil", text |-> Absent]
  ELSE [err |-> "", text |-> store[key]]

\* Master.IsStale at tick t, timeLimit in minutes: "fatal" stands for log.Fatalf.
\* Line 383: time.Since(updateTime).Minutes() > float64(timeLimit), for an
\* elapsed time in ticks.
ExceedsBuggy(elapsed, timeLimit) == elapsed >= timeLimit * TicksPerMinute

Exceeds(elapsed, timeLimit) == elapsed > timeLimit * TicksPerMinute

IsStaleBuggy(store, down, t, dateTimeField, timeLimit) ==
  LET got == GetString(store, dateTimeField, down) IN
  IF got.err # "" THEN (IF got.err = "redis: nil" THEN "stale" ELSE "fatal")
  ELSE LET updateTime == ParseAny(got.text) IN
       IF ~updateTime.ok THEN "fresh"
       ELSE IF Exceeds(t - updateTime.t, timeLimit) THEN "stale" ELSE "fresh"

IsStale(store, down, t, dateTimeField, timeLimit) ==
  LET got == GetString(store, dateTimeField, down) IN
  IF got.err # "" THEN (IF got.err = "redis: nil" THEN "stale" ELSE "fatal")
  ELSE LET updateTime == ParseAny(got.text) IN
       IF ~updateTime.ok THEN "stale"
       ELSE IF Exceeds(t - updateTime.t, timeLimit) THEN "stale" ELSE "fresh"

RECURSIVE GCD2(_, _)
GCD2(a, b) == IF b = 0 THEN a ELSE GCD2(b, a % b)

\* base.GCD over the five periods, as Loop calls it.
GCD(a, b, c, d, e) == GCD2(GCD2(GCD2(GCD2(a, b), c), d), e)

\* The five periods Loop hands to base.GCD, lines 261-265.
LoopPeriodBuggy(c) == GCD(c.cfFit, c.rankFit, c.similar, c.popular, c.popular)

LoopPeriod(c) == GCD(c.cfFit, c.rankFit, c.similar, c.popular, c.latest)

(***************************************************************************)
(* Model slots.                                                            *)
(***************************************************************************)
\* m.rankModel == nil, m.cfModel == nil
NilModel == 0

\* version++ on a Go int
Wrap(v) == IF v > MaxInt THEN MinInt + (v - MaxInt - 1) ELSE v

IncrementBuggy(v) == v

Increment(v) == Wrap(v + 1)

\* sync.Mutex.Lock returns only when nobody holds the mutex.
CanLockBuggy(holder) == TRUE

CanLock(holder) == holder = "free"

\* rank.EncodeModel / cf.EncodeModel: the bytes of an artifact.
EncodeModel(model) == <<model>>

NoBytes == <<>>

Calls == {"GetMatchModelVersion", "GetMatchModel", "GetRankModelVersion", "GetRankModel"}

SlotOf(call) == IF call \in {"GetRankModelVersion", "GetRankModel"} THEN "rank" ELSE "match"

WithBytes(call) == call \in {"GetMatchModel", "GetRankModel"}

\* The body of the four Get*Model* handlers, run with the slot's mutex held:
\* what is returned for the slot's model and version. encFails: EncodeModel
\* returns an error. encoded: EncodeModel was called.
ModelReplyBuggy(call, model, version, encFails) ==
  IF WithBytes(call) /\ encFails
    THEN [call |-> call, version |-> 0, model |-> NoBytes, err |-> TRUE,
          encoded |-> TRUE, saw |-> model]
    ELSE [call |-> call, version |-> version,
          model |-> IF WithBytes(call) THEN EncodeModel(model) ELSE NoBytes,
          err |-> FALSE, encoded |-> WithBytes(call), saw |-> model]

ModelReply(call, model, version, encFails) ==
  IF model = NilModel
    THEN [call |-> call, version |-> 0, model |-> NoBytes, err |-> FALSE,
          encoded |-> FALSE, saw |-> model]
  ELSE IF WithBytes(call) /\ encFails
    THEN [call |-> call, version |-> 0, model |-> NoBytes, err |-> TRUE,
          encoded |-> TRUE, saw |-> model]
    ELSE [call |-> call, version |-> version,
          model |-> IF WithBytes(call) THEN EncodeModel(model) ELSE NoBytes,
          err |-> FALSE, encoded |-> WithBytes(call), saw |-> model]

NoReply == [call |-> "none", version |-> 0, model |-> NoBytes, err |-> FALSE,
            encoded |-> FALSE, saw |-> NilModel, pubs |-> 0]

\* The jobs of an iteration, none of them called yet.
Jobs == {"FitRankModel", "CollectPopItem", "CollectLatest", "CollectSimilar", "FitCFModel"}
NoneRan == [j \in Jobs |-> 0]

NoJob == [job |-> "none", outcome |-> "none", before |-> Absent, after |-> Absent]


(***************************************************************************)
(* Cluster registry: values.                                               *)
(***************************************************************************)
ServerNode == "server"
WorkerNode == "worker"

\* The peer addresses registrations come from.
Addrs == {"10.0.0.1:7001", "10.0.0.2:7002"}

NoLease == [present |-> FALSE, data |-> "", expireAt |-> 0]
NoItem == [key |-> "", data |-> ""]
GcIdle == [pc |-> "idle", seen |-> {}, workers |-> <<>>, servers |-> <<>>]
NoCluster == [valid |-> FALSE, workers |-> <<>>, servers |-> <<>>]

\* The registry before Serve: no lease, no node, nobody in a handler.
leaseIdle ==
  /\ clock = 0
  /\ ttlCache = [a \in Addrs |-> NoLease]
  /\ nodesMap = [a \in Addrs |-> ""]
  /\ nodesMutex = "free"
  /\ reg = [a \in Addrs |-> ""]
  /\ sweep = NoItem
  /\ gc = GcIdle
  /\ cluster = NoCluster
  /\ notes = [a \in Addrs |-> <<>>]
  /\ lastSet = [a \in Addrs |-> -1]
  /\ upAt = [a \in Addrs |-> -1]

(***************************************************************************)
(* Top-K accumulator: values.                                              *)
(***************************************************************************)
\* The ids and the scores pushed.
TopIds == {"A", "B", "C", "D"}
TopScores == {1, 3, 5}

\* No accumulator is in use.
topIdle ==
  /\ topK = 1
  /\ topAcc = {}
  /\ topOut = <<>>
  /\ topPc = "push"
  /\ topSeen = [x \in TopIds |-> 0]
  /\ topCount = 0

\* The items and users of the dataset CollectSimilar is handed, by index.
SimItems == 0..(MaxItems - 1)
SimUsers == {0, 1}

\* dataset.ItemIndex.ToName: the id of the item with an index.
ItemNames == <<"a", "b", "c", "d", "e">>
ToName(i) == ItemNames[i + 1]
SimNames == {ToName(i) : i \in SimItems}

NoList == [set |-> FALSE, list |-> <<>>]

\* CollectSimilar is not running.
simIdle ==
  /\ itemFeedback = [i \in SimItems |-> <<>>]
  /\ numSimilar = 1
  /\ simJobs = 1
  /\ task = [i \in SimItems |-> "todo"]
  /\ pushed = [i \in SimItems |-> <<>>]
  /\ simList = [id \in SimNames |-> NoList]
  /\ simPc = "done"
  /\ simClock = FALSE
  /\ snapshot = itemFeedback
  /\ taken = [i \in SimItems |-> 0]
  /\ wrote = [id \in SimNames |-> <<>>]

\* The items argument of CollectPopItem: item ids and their labels; "" is
\* the global label.
PopIds == {"x", "y", "z"}
PopLabelsOf(id) == IF id = "z" THEN {} ELSE {"L"}
PopLabelSpace == {"", "L"}
\* Feedback timestamps, as days before time.Now(); the configured windows.
PopAges == {1, 7, 10}
TimeWindows == {7, 10}

NoCount == [id \in PopIds |-> [has |-> FALSE, n |-> 0]]
NoFilters == [l \in PopLabelSpace |-> [exists |-> FALSE, acc |-> {}]]
NoPopLists == [l \in PopLabelSpace |-> [state |-> "none", list |-> <<>>]]

\* CollectPopItem is not running.
popIdle ==
  /\ popFeedback = <<>>
  /\ numPopular = 1
  /\ timeWindow = 7
  /\ popNow = 0
  /\ popCount = NoCount
  /\ popFilters = NoFilters
  /\ popLists = NoPopLists
  /\ popPc = "done"
  /\ popClock = Absent

\* Loop has not started.
perIdle ==
  /\ periods = [cfFit |-> 1, rankFit |-> 1, similar |-> 1, popular |-> 1, latest |-> 1]
  /\ loopPeriod = 0
  /\ slept = 0

\* IsStale is not being called.
staleIdle ==
  /\ staleText = Absent
  /\ staleNow = 0
  /\ staleLimit = 0
  /\ staleResult = "none"

\* Nobody reads the DataStore.
pageIdle ==
  /\ pgKind = "items"
  /\ pgStore = {}
  /\ pgType = ""
  /\ pgN = 1
  /\ pgCursor = ""
  /\ pgOut = <<>>
  /\ pgCalls = 0
  /\ pgPc = "done"

\* CollectSimilar is not reporting progress.
progIdle ==
  /\ progItems = 0
  /\ progJobs = 1
  /\ progFaults = 0
  /\ nextJob = 0
  /\ worker = [w \in 1..(MaxJobs) |-> "returned"]
  /\ parErr = FALSE
  /\ completed = [len |-> 0, closed |-> TRUE]
  /\ completedCount = 0
  /\ reporter = "returned"
  /\ logged = -1
  /\ progPc = "done"
  /\ closes = 1
  /\ sent = 0
  /\ parked = FALSE

extraIdle == perIdle /\ staleIdle /\ pageIdle /\ progIdle

jobIdle == topIdle /\ simIdle /\ popIdle /\ extraIdle

(***************************************************************************)
(* Spec: NewMaster, then the Loop goroutine and one RPC handler.           *)
(***************************************************************************)
\* NewMaster: both versions are rand.Int(), both models nil. The cache store is
\* the one the master finds: any clock key may be unset or hold text that is no
\* timestamp.
Init ==
  /\ now = 0
  /\ pc = "check"
  /\ cfg \in Configs
  /\ \E bad \in {{}, {CollectPopularTime, LastFitRankModelTime}} :
       cacheStore = [k \in MetaKeys |-> IF k \in bad THEN Garbage ELSE Absent]
  /\ cacheLists = [s \in ListSpaces |-> -1]
  /\ stale = [pop |-> FALSE, latest |-> FALSE, similar |-> FALSE,
              rank |-> FALSE, cf |-> FALSE]
  /\ dataSet = "none"
  /\ rankDataSet = "none"
  /\ loads = 0
  /\ ran = NoneRan
  /\ nextModel = NilModel
  /\ rankModel = NilModel
  /\ cfModel = NilModel
  /\ rankModelVersion \in 0..MaxRand
  /\ matchModelVersion \in 0..MaxRand
  /\ rankModelMutex = "free"
  /\ matchModelMutex = "free"
  /\ initVersion = [rank |-> rankModelVersion, match |-> matchModelVersion]
  /\ published = [rank |-> <<>>, match |-> <<>>]
  /\ lastJob = NoJob
  /\ faults = 0
  /\ rpc = "none"
  /\ resp = NoReply
  /\ timeout = 1
  /\ leaseIdle
  /\ jobIdle

\* n more failures happen in this step, within the budget of the run.
Fail(n) == /\ faults + n <= MaxFaults
           /\ faults' = faults + n

slotVars == <<rankModel, rankModelVersion, rankModelMutex,
              cfModel, matchModelVersion, matchModelMutex>>

\* Loop, line 277: the rank model is due.
DueRank(st, model) == st.rank \/ model = NilModel

\* Loop, line 289: the dataset of the collections and the match model is needed.
NeedLoadBuggy(st, model) == TRUE

NeedLoad(st, model) == st.cf \/ st.latest \/ st.pop \/ st.similar \/ model = NilModel

\* Loop, line 317: the match model is due.
DueCFBuggy(st, model) == TRUE

DueCF(st, model) == st.cf \/ model = NilModel

\* Loop, lines 269-274: the five IsStale calls of an iteration.
LoopCheck ==
  /\ pc = "check"
  /\ \E down \in BOOLEAN :
       LET r == [k \in ClockKeys |->
                   IsStale(cacheStore, down, now, k,
                           CASE k = CollectPopularTime -> cfg.popular
                             [] k = CollectLatestTime -> cfg.latest
                             [] k = CollectSimilarTime -> cfg.similar
                             [] k = LastFitRankModelTime -> cfg.rankFit
                             [] OTHER -> cfg.cfFit)]
       IN /\ Fail(IF down THEN 1 ELSE 0)
          /\ IF \E k \in ClockKeys : r[k] = "fatal"
               THEN /\ pc' = "dead"
                    /\ UNCHANGED stale
               ELSE /\ pc' = "rank"
                    /\ stale' = [pop |-> r[CollectPopularTime] = "stale",
                                 latest |-> r[CollectLatestTime] = "stale",
                                 similar |-> r[CollectSimilarTime] = "stale",
                                 rank |-> r[LastFitRankModelTime] = "stale",
                                 cf |-> r[LastFitCFModelTime] = "stale"]
  /\ loads' = 0
  /\ ran' = NoneRan
  /\ UNCHANGED <<now, cfg, cacheStore, cacheLists, dataSet, rankDataSet, nextModel,
                 slotVars, initVersion, published, lastJob, rpc, resp>>

\* Loop, lines 279-281 and 293-295: where an error of a dataset load sends the
\* goroutine; log.Fatalf ends the process.
OnLoadErrorBuggy == "sleep"

OnLoadError == "dead"

\* Loop, lines 279-286: where Loop goes after rank.LoadDataFromDatabase: an
\* empty dataset (PositiveCount == 0) is logged and FitRankModel is not called.
AfterRankLoadBuggy(load) == IF load = "error" THEN OnLoadError ELSE "rankFit"

AfterRankLoad(load) ==
  CASE load = "error" -> OnLoadError
    [] load = "empty" -> "cf"
    [] OTHER -> "rankFit"

\* Loop, lines 276-287: pull the dataset for ranking.
LoopRank ==
  /\ pc = "rank"
  /\ IF DueRank(stale, rankModel)
       THEN \E load \in {"error", "empty", "data"} :
              /\ Fail(IF load = "error" THEN 1 ELSE 0)
              /\ pc' = AfterRankLoad(load)
              /\ rankDataSet' = CASE load = "error" -> rankDataSet
                                  [] load = "empty" -> "empty"
                                  [] OTHER -> "loaded"
       ELSE /\ pc' = "cf"
            /\ UNCHANGED <<rankDataSet, faults>>
  /\ UNCHANGED <<now, cfg, cacheStore, cacheLists, stale, dataSet, loads, ran,
                 nextModel, slotVars, initVersion, published, lastJob, rpc, resp>>

\* FitRankModel, lines 333-336: split, sample, fit a new model.
FitRankModelTrain ==
  /\ pc = "rankFit"
  /\ nextModel' = Len(published.rank) + 1
  /\ pc' = "rankLock"
  /\ ran' = [ran EXCEPT !["FitRankModel"] = 1]
  /\ UNCHANGED <<now, cfg, cacheStore, cacheLists, stale, dataSet, rankDataSet,
                 loads, slotVars,
                 initVersion, published, lastJob, rpc, resp, faults>>

\* FitRankModel, lines 338-339: lock, store the model.
FitRankModelStore ==
  /\ pc = "rankLock"
  /\ CanLock(rankModelMutex)
  /\ rankModelMutex' = "loop"
  /\ rankModel' = nextModel
  /\ pc' = "rankIncr"
  /\ UNCHANGED <<now, cfg, cacheStore, cacheLists, stale, dataSet, rankDataSet, loads, ran,
                 nextModel,
                 rankModelVersion, cfModel, matchModelVersion, matchModelMutex,
                 initVersion, published, lastJob, rpc, resp, faults>>

\* FitRankModel, line 341, and FitCFModel, line 362: the holder of the slot's
\* mutex after the publish, before the writes to the CacheStore.
AfterPublishBuggy == "loop"

AfterPublish == "free"

\* FitRankModel, lines 340-341: raise the version, unlock.
FitRankModelIncr ==
  /\ pc = "rankIncr"
  /\ rankModelVersion' = Increment(rankModelVersion)
  /\ rankModelMutex' = AfterPublish
  /\ published' = [published EXCEPT !.rank =
                     Append(@, [model |-> rankModel, version |-> rankModelVersion', at |-> now])]
  /\ pc' = "rankMeta"
  /\ UNCHANGED <<now, cfg, cacheStore, cacheLists, stale, dataSet, rankDataSet, loads, ran,
                 nextModel,
                 rankModel, cfModel, matchModelVersion, matchModelMutex,
                 initVersion, lastJob, rpc, resp, faults>>

\* The two SetString calls that end FitRankModel and FitCFModel: the fit time,
\* then the version; the first error is returned.
FitMeta(name, timeKey, versionKey, version, errorPc, next) ==
  \E end \in {"ok", "time fails", "version fails"} :
    /\ Fail(IF end = "ok" THEN 0 ELSE 1)
    /\ cacheStore' =
         CASE end = "time fails" -> cacheStore
           [] end = "version fails" -> [cacheStore EXCEPT ![timeKey] = Now(now)]
           [] OTHER -> [cacheStore EXCEPT ![timeKey] = Now(now),
                                          ![versionKey] = Hex(version)]
    /\ pc' = IF end = "ok" THEN next ELSE errorPc
    /\ lastJob' = [job |-> name,
                   outcome |-> IF end = "ok" THEN "ok" ELSE "failed",
                   before |-> cacheStore[timeKey],
                   after |-> cacheStore'[timeKey]]

\* FitRankModel, lines 343-346, and its caller, lines 284-286: an error of
\* FitRankModel makes Loop call log.Fatalf.
FitRankModelMeta ==
  /\ pc = "rankMeta"
  /\ FitMeta("FitRankModel", LastFitRankModelTime, LatestRankModelVersion,
             rankModelVersion, "dead", "cf")
  /\ UNCHANGED <<now, cfg, cacheLists, stale, dataSet, rankDataSet, loads, ran,
                 nextModel, slotVars,
                 initVersion, published, rpc, resp>>

\* Loop, lines 289-301: load the dataset for the collections and the match model.
LoopLoad ==
  /\ pc = "cf"
  /\ IF NeedLoad(stale, cfModel)
       THEN \E load \in {"error", "empty", "data"} :
              /\ Fail(IF load = "error" THEN 1 ELSE 0)
              /\ loads' = loads + 1
              /\ pc' = CASE load = "error" -> OnLoadError
                         [] load = "empty" -> "sleep"
                         [] OTHER -> "popular"
              /\ dataSet' = CASE load = "error" -> dataSet
                              [] load = "empty" -> "empty"
                              [] OTHER -> "loaded"
       ELSE /\ pc' = "sleep"
            /\ UNCHANGED <<dataSet, loads, faults>>
  /\ UNCHANGED <<now, cfg, cacheStore, cacheLists, stale, rankDataSet, ran, nextModel,
                 slotVars,
                 initVersion, published, lastJob, rpc, resp>>

\* Lines 387, 430 and 460: the test of the list size (NumPopular, NumLatest,
\* NumSimilar) that opens each collection job.
SizePositiveBuggy(size) == TRUE

SizePositive(size) == size > 0

\* The shape CollectPopItem, CollectLatest and CollectSimilar share: nothing
\* when the list size is not positive; else the lists are written (an error of
\* SetList, or of a worker of base.Parallel, is logged), and then the clock is
\* written with SetString (its error is logged).
Collect(name, size, space, key, next) ==
  /\ pc' = next
  /\ ran' = [ran EXCEPT ![name] = loads]
  /\ IF SizePositive(size)
       THEN \E listFails, clockFails \in BOOLEAN :
              /\ Fail((IF listFails THEN 1 ELSE 0) + (IF clockFails THEN 1 ELSE 0))
              /\ cacheLists' = IF listFails THEN cacheLists
                               ELSE [cacheLists EXCEPT ![space] = now]
              /\ cacheStore' = IF clockFails THEN cacheStore
                               ELSE [cacheStore EXCEPT ![key] = Now(now)]
              /\ lastJob' = [job |-> name,
                             outcome |-> IF listFails \/ clockFails THEN "failed" ELSE "ok",
                             before |-> cacheStore[key],
                             after |-> cacheStore'[key]]
       ELSE /\ lastJob' = [job |-> name, outcome |-> "disabled",
                           before |-> cacheStore[key], after |-> cacheStore[key]]
            /\ UNCHANGED <<cacheLists, cacheStore, faults>>
  /\ UNCHANGED <<now, cfg, stale, dataSet, rankDataSet, loads, nextModel, slotVars,
                 initVersion, published, rpc, resp>>

\* The job is not due: Loop goes on.
Skip(next) ==
  /\ pc' = next
  /\ UNCHANGED <<now, cfg, cacheStore, cacheLists, stale, dataSet, rankDataSet,
                 loads, ran, nextModel, slotVars, initVersion, published, lastJob,
                 rpc, resp, faults>>

\* Loop, lines 302-305, and CollectPopItem.
CollectPopItem ==
  /\ pc = "popular"
  /\ IF stale.pop
       THEN Collect("CollectPopItem", cfg.numPopular, PopularItems,
                    CollectPopularTime, "latest")
       ELSE Skip("latest")

\* Loop, lines 307-310, and CollectLatest.
CollectLatest ==
  /\ pc = "latest"
  /\ IF stale.latest
       THEN Collect("CollectLatest", cfg.numLatest, LatestItems,
                    CollectLatestTime, "similar")
       ELSE Skip("similar")

\* Loop, lines 312-315, and CollectSimilar.
CollectSimilar ==
  /\ pc = "similar"
  /\ IF stale.similar
       THEN Collect("CollectSimilar", cfg.numSimilar, SimilarItems,
                    CollectSimilarTime, "cfFit")
       ELSE Skip("cfFit")

\* Loop, lines 317-323, and FitCFModel, lines 351-356: cf.NewModel may return
\* an error, which FitCFModel returns and Loop logs; else the model is fitted.
FitCFModelTrain ==
  /\ pc = "cfFit"
  /\ IF DueCF(stale, cfModel)
       THEN \E newModelFails \in BOOLEAN :
              /\ Fail(IF newModelFails THEN 1 ELSE 0)
              /\ ran' = [ran EXCEPT !["FitCFModel"] = loads]
              /\ IF newModelFails
                   THEN /\ pc' = "sleep"
                        /\ lastJob' = [job |-> "FitCFModel", outcome |-> "failed",
                                       before |-> cacheStore[LastFitCFModelTime],
                                       after |-> cacheStore[LastFitCFModelTime]]
                        /\ UNCHANGED nextModel
                   ELSE /\ pc' = "cfLock"
                        /\ nextModel' = Len(published.match) + 1
                        /\ UNCHANGED lastJob
       ELSE /\ pc' = "sleep"
            /\ UNCHANGED <<nextModel, lastJob, ran, faults>>
  /\ UNCHANGED <<now, cfg, cacheStore, cacheLists, stale, dataSet, rankDataSet,
                 loads, slotVars,
                 initVersion, published, rpc, resp>>

\* FitCFModel, lines 359-360: lock, store the model.
FitCFModelStoreBuggy ==
  /\ pc = "cfLock"
  /\ CanLock(matchModelMutex)
  /\ matchModelMutex' = "loop"
  /\ cfModel' = nextModel
  /\ rankModel' = nextModel
  /\ pc' = "cfIncr"
  /\ UNCHANGED <<now, cfg, cacheStore, cacheLists, stale, dataSet, rankDataSet, loads, ran,
                 nextModel,
                 rankModelVersion, rankModelMutex, matchModelVersion,
                 initVersion, published, lastJob, rpc, resp, faults>>

FitCFModelStore ==
  /\ pc = "cfLock"
  /\ CanLock(matchModelMutex)
  /\ matchModelMutex' = "loop"
  /\ cfModel' = nextModel
  /\ pc' = "cfIncr"
  /\ UNCHANGED <<now, cfg, cacheStore, cacheLists, stale, dataSet, rankDataSet, loads, ran,
                 nextModel,
                 rankModel, rankModelVersion, rankModelMutex, matchModelVersion,
                 initVersion, published, lastJob, rpc, resp, faults>>

\* FitCFModel, lines 361-362: raise the version, unlock.
FitCFModelIncr ==
  /\ pc = "cfIncr"
  /\ matchModelVersion' = Increment(matchModelVersion)
  /\ matchModelMutex' = AfterPublish
  /\ published' = [published EXCEPT !.match =
                     Append(@, [model |-> cfModel, version |-> matchModelVersion', at |-> now])]
  /\ pc' = "cfMeta"
  /\ UNCHANGED <<now, cfg, cacheStore, cacheLists, stale, dataSet, rankDataSet, loads, ran,
                 nextModel,
                 rankModel, rankModelVersion, rankModelMutex, cfModel,
                 initVersion, lastJob, rpc, resp, faults>>

\* FitCFModel, lines 364-367, and its caller, lines 319-322: an error of
\* FitCFModel is logged and Loop goes on.
FitCFModelMeta ==
  /\ pc = "cfMeta"
  /\ FitMeta("FitCFModel", LastFitCFModelTime, LatestCFModelVersion,
             matchModelVersion, "sleep", "sleep")
  /\ UNCHANGED <<now, cfg, cacheLists, stale, dataSet, rankDataSet, loads, ran,
                 nextModel, slotVars,
                 initVersion, published, rpc, resp>>

\* Loop, lines 327-328: sleep for the loop period, then the next iteration;
\* the iteration that ends has taken a tick of its own.
LoopSleep ==
  /\ pc = "sleep"
  /\ (now + LoopPeriod(cfg) * TicksPerMinute + 1) \div TicksPerMinute <= MaxNow
  /\ now' = now + LoopPeriod(cfg) * TicksPerMinute + 1
  /\ pc' = "check"
  /\ dataSet' = "none"
  /\ rankDataSet' = "none"
  /\ UNCHANGED <<cfg, cacheStore, cacheLists, stale, loads, ran, nextModel, slotVars,
                 initVersion, published, lastJob, rpc, resp, faults>>

\* GetMatchModelVersion, GetMatchModel, GetRankModelVersion, GetRankModel:
\* the handler takes the slot's mutex (lines 183, 196, 215, 225).
RpcLock ==
  /\ pc # "dead"
  /\ rpc = "none"
  /\ \E call \in Calls :
       /\ rpc' = call
       /\ IF SlotOf(call) = "rank"
            THEN /\ CanLock(rankModelMutex)
                 /\ rankModelMutex' = "rpc"
                 /\ UNCHANGED matchModelMutex
            ELSE /\ CanLock(matchModelMutex)
                 /\ matchModelMutex' = "rpc"
                 /\ UNCHANGED rankModelMutex
  /\ resp' = NoReply
  /\ UNCHANGED <<now, pc, cfg, cacheStore, cacheLists, stale, dataSet, rankDataSet, loads, ran,
                 nextModel,
                 rankModel, rankModelVersion, cfModel, matchModelVersion,
                 initVersion, published, lastJob, faults>>

\* The rest of the handler: read the slot, build the response, and the
\* deferred Unlock.
RpcReturn ==
  /\ pc # "dead"
  /\ rpc # "none"
  /\ \E encFails \in BOOLEAN :
       /\ IF SlotOf(rpc) = "rank"
            THEN /\ resp' = [pubs |-> Len(published.rank)] @@
                            ModelReply(rpc, rankModel, rankModelVersion, encFails)
                 /\ rankModelMutex' = "free"
                 /\ UNCHANGED matchModelMutex
            ELSE /\ resp' = [pubs |-> Len(published.match)] @@
                            ModelReply(rpc, cfModel, matchModelVersion, encFails)
                 /\ matchModelMutex' = "free"
                 /\ UNCHANGED rankModelMutex
  /\ rpc' = "none"
  /\ UNCHANGED <<now, pc, cfg, cacheStore, cacheLists, stale, dataSet, rankDataSet, loads, ran,
                 nextModel,
                 rankModel, rankModelVersion, cfModel, matchModelVersion,
                 initVersion, published, lastJob, faults>>

Next ==
  \/ (LoopCheck /\ UNCHANGED <<leaseVars, jobVars>>)
  \/ (LoopRank /\ UNCHANGED <<leaseVars, jobVars>>)
  \/ (FitRankModelTrain /\ UNCHANGED <<leaseVars, jobVars>>)
  \/ (FitRankModelStore /\ UNCHANGED <<leaseVars, jobVars>>)
  \/ (FitRankModelIncr /\ UNCHANGED <<leaseVars, jobVars>>)
  \/ (FitRankModelMeta /\ UNCHANGED <<leaseVars, jobVars>>)
  \/ (LoopLoad /\ UNCHANGED <<leaseVars, jobVars>>)
  \/ (CollectPopItem /\ UNCHANGED <<leaseVars, jobVars>>)
  \/ (CollectLatest /\ UNCHANGED <<leaseVars, jobVars>>)
  \/ (CollectSimilar /\ UNCHANGED <<leaseVars, jobVars>>)
  \/ (FitCFModelTrain /\ UNCHANGED <<leaseVars, jobVars>>)
  \/ (FitCFModelStore /\ UNCHANGED <<leaseVars, jobVars>>)
  \/ (FitCFModelIncr /\ UNCHANGED <<leaseVars, jobVars>>)
  \/ (FitCFModelMeta /\ UNCHANGED <<leaseVars, jobVars>>)
  \/ (LoopSleep /\ UNCHANGED <<leaseVars, jobVars>>)

\* The scheduler alone, with failing stores and loaders.
Spec == Init /\ [][Next]_vars

\* The scheduler with an RPC handler on the model slots beside it; the stores
\* and the loaders do not fail in these runs (EncodeModel may).
InitRpc ==
  /\ now = 0
  /\ pc = "check"
  /\ cfg \in Configs
  /\ \E bad \in {{}, {CollectPopularTime, LastFitRankModelTime}} :
       cacheStore = [k \in MetaKeys |-> IF k \in bad THEN Garbage ELSE Absent]
  /\ cacheLists = [s \in ListSpaces |-> -1]
  /\ stale = [pop |-> FALSE, latest |-> FALSE, similar |-> FALSE,
              rank |-> FALSE, cf |-> FALSE]
  /\ dataSet = "none"
  /\ rankDataSet = "none"
  /\ loads = 0
  /\ ran = NoneRan
  /\ nextModel = NilModel
  /\ rankModel = NilModel
  /\ cfModel = NilModel
  /\ rankModelVersion \in 0..MaxRand
  /\ matchModelVersion \in 0..MaxRand
  /\ rankModelMutex = "free"
  /\ matchModelMutex = "free"
  /\ initVersion = [rank |-> rankModelVersion, match |-> matchModelVersion]
  /\ published = [rank |-> <<>>, match |-> <<>>]
  /\ lastJob = NoJob
  /\ faults = MaxFaults
  /\ rpc = "none"
  /\ resp = NoReply
  /\ timeout = 1
  /\ leaseIdle
  /\ jobIdle

NextRpc ==
  \/ Next
  \/ (RpcLock /\ UNCHANGED <<leaseVars, jobVars>>)
  \/ (RpcReturn /\ UNCHANGED <<leaseVars, jobVars>>)

SpecRpc == InitRpc /\ [][NextRpc]_vars

\* The loop and the RPC readers with one failure of the stores or of
\* cf.NewModel still to come, under the configuration that fits the rank
\* model every minute and has every collection enabled.
InitRpcFail ==
  /\ now = 0
  /\ pc = "check"
  /\ cfg = CHOOSE c \in Configs : c.rankFit = 1 /\ c.numLatest = 1
  /\ cacheStore = [k \in MetaKeys |-> Absent]
  /\ cacheLists = [s \in ListSpaces |-> -1]
  /\ stale = [pop |-> FALSE, latest |-> FALSE, similar |-> FALSE,
              rank |-> FALSE, cf |-> FALSE]
  /\ dataSet = "none"
  /\ rankDataSet = "none"
  /\ loads = 0
  /\ ran = NoneRan
  /\ nextModel = NilModel
  /\ rankModel = NilModel
  /\ cfModel = NilModel
  /\ rankModelVersion \in 0..MaxRand
  /\ matchModelVersion \in 0..MaxRand
  /\ rankModelMutex = "free"
  /\ matchModelMutex = "free"
  /\ initVersion = [rank |-> rankModelVersion, match |-> matchModelVersion]
  /\ published = [rank |-> <<>>, match |-> <<>>]
  /\ lastJob = NoJob
  /\ faults = MaxFaults - 1
  /\ rpc = "none"
  /\ resp = NoReply
  /\ timeout = 1
  /\ leaseIdle
  /\ jobIdle

SpecRpcFail == InitRpcFail /\ [][NextRpc]_vars


(***************************************************************************)
(* SpecLease: Serve's TTL cache, the registration handlers, the expiry     *)
(* goroutine of the cache, and GetCluster.                                 *)
(*                                                                         *)
(* Time: a handler or a callback takes less than one unit of the clock, so *)
(* the clock advances only when nobody is inside one, and the timer of the *)
(* cache fires in the second an item expires: the clock does not pass an   *)
(* item's expiry while the item is still in the cache.                     *)
(***************************************************************************)
\* Serve, lines 89-91: the TTL of the cache, in seconds.
ClusterTTLBuggy(clusterMetaTimeout) == 60 * clusterMetaTimeout

ClusterTTL(clusterMetaTimeout) == clusterMetaTimeout

\* Serve, line 88: the callback run for an item that was not in the cache.
OnNewItem == "NodeUp"

\* Serve, line 87: the callback run for an item the cache expired.
OnExpirationBuggy == "NodeUp"

OnExpiration == "NodeDown"

\* ttlcache Set: upsert; the item expires a TTL after this call.
CacheSet(cache, key, data, t, d) ==
  [cache EXCEPT ![key] = [present |-> TRUE, data |-> data, expireAt |-> t + d]]

\* ttlcache: the expiry timer of an item has fired at second t.
Expired(item, t) == item.present /\ item.expireAt <= t

\* NodeUp, line 247, with nodesMutex held.
NodeUpBuggy(map, key, nodeType) == map

NodeUpKeyAsValue(map, key, nodeType) == [map EXCEPT ![key] = key]

NodeUp(map, key, nodeType) == [map EXCEPT ![key] = nodeType]

\* NodeDown, line 255, with nodesMutex held.
NodeDownBuggy(map, key, nodeType) == map

NodeDown(map, key, nodeType) == [map EXCEPT ![key] = ""]

\* The state Spec's variables rest in while the registry runs.
loopIdle ==
  /\ now = 0
  /\ pc = "check"
  /\ cfg = CHOOSE c \in Configs : c.numLatest = 1
  /\ cacheStore = [k \in MetaKeys |-> Absent]
  /\ cacheLists = [x \in ListSpaces |-> -1]
  /\ stale = [pop |-> FALSE, latest |-> FALSE, similar |-> FALSE,
              rank |-> FALSE, cf |-> FALSE]
  /\ dataSet = "none"
  /\ rankDataSet = "none"
  /\ loads = 0
  /\ ran = NoneRan
  /\ nextModel = NilModel
  /\ rankModel = NilModel
  /\ cfModel = NilModel
  /\ rankModelVersion = 0
  /\ matchModelVersion = 0
  /\ rankModelMutex = "free"
  /\ matchModelMutex = "free"
  /\ initVersion = [rank |-> 0, match |-> 0]
  /\ published = [rank |-> <<>>, match |-> <<>>]
  /\ lastJob = NoJob
  /\ faults = 0
  /\ rpc = "none"
  /\ resp = NoReply

InitLease ==
  /\ timeout \in 1..MaxTTL
  /\ leaseIdle
  /\ loopIdle
  /\ jobIdle

\* A callback of the cache runs: NodeUp or NodeDown, whichever Serve gave it,
\* from Lock to the deferred Unlock.
RunCallback(name, key, value) ==
  /\ CanLock(nodesMutex)
  /\ nodesMap' = IF name = "NodeUp" THEN NodeUp(nodesMap, key, value)
                                   ELSE NodeDown(nodesMap, key, value)
  /\ notes' = [notes EXCEPT ![key] = Append(@, IF name = "NodeUp" THEN "up" ELSE "down")]
  /\ upAt' = IF name = "NodeUp" THEN [upAt EXCEPT ![key] = clock] ELSE upAt
  /\ cluster' = NoCluster

\* RegisterServer / RegisterWorker up to the return of ttlCache.Set's own
\* critical section: the lease is upserted; a key that was not in the cache
\* has its new-item callback run next, before Set returns.
Register(addr, nodeType) ==
  /\ gc.pc # "fatal"
  /\ sweep = NoItem
  /\ ttlCache' = CacheSet(ttlCache, addr, nodeType, clock, ClusterTTL(timeout))
  /\ lastSet' = [lastSet EXCEPT ![addr] = clock]
  /\ reg' = IF ttlCache[addr].present THEN reg ELSE [reg EXCEPT ![addr] = nodeType]
  /\ cluster' = NoCluster
  /\ UNCHANGED <<clock, timeout, nodesMap, nodesMutex, sweep, gc, notes, upAt>>

\* RegisterServer, lines 136-144
RegisterServer == \E addr \in Addrs : Register(addr, ServerNode)

\* RegisterWorker, lines 146-154
RegisterWorker == \E addr \in Addrs : Register(addr, WorkerNode)

\* The new-item callback of the registration of addr, then the handler
\* returns.
NewItemCallbackOf(addr) ==
  /\ gc.pc # "fatal"
  /\ reg[addr] # ""
  /\ RunCallback(OnNewItem, addr, reg[addr])
  /\ reg' = [reg EXCEPT ![addr] = ""]
  /\ UNCHANGED <<clock, timeout, ttlCache, nodesMutex, sweep, gc, lastSet>>

NewItemCallback == \E addr \in Addrs : NewItemCallbackOf(addr)

\* The expiry goroutine of the cache removes an item whose timer has fired.
SweepExpire ==
  /\ gc.pc # "fatal"
  /\ sweep = NoItem
  /\ \E addr \in Addrs :
       /\ Expired(ttlCache[addr], clock)
       /\ sweep' = [key |-> addr, data |-> ttlCache[addr].data]
       /\ ttlCache' = [ttlCache EXCEPT ![addr] = NoLease]
  /\ cluster' = NoCluster
  /\ UNCHANGED <<clock, timeout, nodesMap, nodesMutex, reg, gc, notes, lastSet, upAt>>

\* The expiration callback of the removed item.
ExpirationCallback ==
  /\ gc.pc # "fatal"
  /\ sweep # NoItem
  /\ RunCallback(OnExpiration, sweep.key, sweep.data)
  /\ sweep' = NoItem
  /\ UNCHANGED <<clock, timeout, ttlCache, nodesMutex, reg, gc, lastSet>>

\* GetCluster, lines 157-168: the empty response, then nodesMutex.Lock().
GetClusterLock ==
  /\ gc.pc = "idle"
  /\ CanLock(nodesMutex)
  /\ nodesMutex' = "GetCluster"
  /\ gc' = [pc |-> "range", seen |-> {}, workers |-> <<>>, servers |-> <<>>]
  /\ cluster' = NoCluster
  /\ UNCHANGED <<clock, timeout, ttlCache, nodesMap, reg, sweep, notes, lastSet, upAt>>

\* GetCluster, lines 169-178: one round of the range over nodesMap.
GetClusterRange ==
  /\ gc.pc = "range"
  /\ \E addr \in {a \in Addrs : nodesMap[a] # ""} \ gc.seen :
       gc' = CASE nodesMap[addr] = WorkerNode ->
                    [gc EXCEPT !.seen = @ \cup {addr}, !.workers = Append(@, addr)]
               [] nodesMap[addr] = ServerNode ->
                    [gc EXCEPT !.seen = @ \cup {addr}, !.servers = Append(@, addr)]
               [] OTHER -> [gc EXCEPT !.pc = "fatal"]
  /\ cluster' = NoCluster
  /\ UNCHANGED <<clock, timeout, ttlCache, nodesMap, nodesMutex, reg, sweep,
                 notes, lastSet, upAt>>

\* GetCluster, line 168: what the deferred call leaves nodesMutex as.
DeferredUnlockBuggy == "GetCluster"

DeferredUnlock == "free"

\* GetCluster, line 179, and the deferred Unlock.
GetClusterReturn ==
  /\ gc.pc = "range"
  /\ {a \in Addrs : nodesMap[a] # ""} \subseteq gc.seen
  /\ cluster' = [valid |-> TRUE, workers |-> gc.workers, servers |-> gc.servers]
  /\ nodesMutex' = DeferredUnlock
  /\ gc' = GcIdle
  /\ UNCHANGED <<clock, timeout, ttlCache, nodesMap, reg, sweep, notes, lastSet, upAt>>

\* A second passes.
Tick ==
  /\ clock < MaxClock
  /\ gc.pc = "idle"
  /\ sweep = NoItem
  /\ \A a \in Addrs : reg[a] = "" /\ ~Expired(ttlCache[a], clock)
  /\ clock' = clock + 1
  /\ cluster' = NoCluster
  /\ UNCHANGED <<timeout, ttlCache, nodesMap, nodesMutex, reg, sweep, gc, notes, lastSet, upAt>>

NextLease ==
  \/ (RegisterServer /\ UNCHANGED <<loopVars, jobVars>>)
  \/ (RegisterWorker /\ UNCHANGED <<loopVars, jobVars>>)
  \/ (NewItemCallback /\ UNCHANGED <<loopVars, jobVars>>)
  \/ (SweepExpire /\ UNCHANGED <<loopVars, jobVars>>)
  \/ (ExpirationCallback /\ UNCHANGED <<loopVars, jobVars>>)
  \/ (GetClusterLock /\ UNCHANGED <<loopVars, jobVars>>)
  \/ (GetClusterRange /\ UNCHANGED <<loopVars, jobVars>>)
  \/ (GetClusterReturn /\ UNCHANGED <<loopVars, jobVars>>)
  \/ (Tick /\ UNCHANGED <<loopVars, jobVars>>)

SpecLease == InitLease /\ [][NextLease]_vars

\* The registry under the scheduling of the Go runtime: a goroutine that
\* can run does run, and sync.Mutex hands the lock to a goroutine that keeps
\* waiting for it (starvation mode), so a callback blocked in Lock is not
\* passed over for ever by later GetCluster calls.
FairLease ==
  /\ \A addr \in Addrs :
       SF_vars(NewItemCallbackOf(addr) /\ UNCHANGED <<loopVars, jobVars>>)
  /\ SF_vars(ExpirationCallback /\ UNCHANGED <<loopVars, jobVars>>)
  /\ WF_vars(GetClusterRange /\ UNCHANGED <<loopVars, jobVars>>)
  /\ WF_vars(GetClusterReturn /\ UNCHANGED <<loopVars, jobVars>>)

\* Whether a call returns does not depend on what the clock reads, so the
\* fair registry is followed over the last second of the modelled clock: an
\* empty registry at second MaxClock - 1.
InitLeaseFair ==
  /\ timeout \in 1..MaxTTL
  /\ clock = MaxClock - 1
  /\ ttlCache = [a \in Addrs |-> NoLease]
  /\ nodesMap = [a \in Addrs |-> ""]
  /\ nodesMutex = "free"
  /\ reg = [a \in Addrs |-> ""]
  /\ sweep = NoItem
  /\ gc = GcIdle
  /\ cluster = NoCluster
  /\ notes = [a \in Addrs |-> <<>>]
  /\ lastSet = [a \in Addrs |-> -1]
  /\ upAt = [a \in Addrs |-> -1]
  /\ loopIdle
  /\ jobIdle

SpecLeaseFair == InitLeaseFair /\ [][NextLease]_vars /\ FairLease


(***************************************************************************)
(* SpecTopK: base.NewTopKFilter / base.NewTopKStringFilter, Push, PopAll.  *)
(***************************************************************************)
\* The score of id in the accumulator acc, 0 when acc does not hold id.
ScoreIn(acc, id) ==
  IF \E e \in acc : e.id = id THEN (CHOOSE e \in acc : e.id = id).score ELSE 0

\* Push(id, score) on an accumulator of capacity k: an id already retained
\* keeps the higher of its scores; a new id is retained, and if more than k
\* ids are retained then one of the lowest score is dropped. The result is
\* the set of accumulators Push may leave (ties are broken in no given way).
PushOneBuggy(acc, id, score, k) ==
  LET merged == acc \cup {[id |-> id, score |-> score]}
  IN IF Cardinality(merged) <= k THEN {merged}
     ELSE {merged \ {e} : e \in merged}

PushOne(acc, id, score, k) ==
  LET kept == {e \in acc : e.id # id}
      best == IF ScoreIn(acc, id) > score THEN ScoreIn(acc, id) ELSE score
      merged == kept \cup {[id |-> id, score |-> best]}
      low == {e \in merged : \A f \in merged : e.score <= f.score}
  IN IF Cardinality(merged) <= k THEN {merged}
     ELSE {merged \ {e} : e \in low}

\* PopAll: the ids retained, highest score first; ids of equal score in any
\* order.
PopAll(acc) ==
  LET ids == {e.id : e \in acc}
      n == Cardinality(ids)
  IN {out \in [1..n -> ids] :
        /\ \A p, q \in 1..n : p < q => out[p] # out[q]
        /\ \A p, q \in 1..n : p < q => ScoreIn(acc, out[p]) >= ScoreIn(acc, out[q])}

topLoopIdle == loopIdle /\ leaseIdle /\ timeout = 1 /\ simIdle /\ popIdle /\ extraIdle

\* base.NewTopKStringFilter(k)
InitTopK ==
  /\ topK \in 1..MaxK
  /\ topAcc = {}
  /\ topOut = <<>>
  /\ topPc = "push"
  /\ topSeen = [x \in TopIds |-> 0]
  /\ topCount = 0
  /\ topLoopIdle

\* Push(id, score)
TopKPush ==
  /\ topPc = "push"
  /\ topCount < MaxPushes
  /\ \E id \in TopIds, score \in TopScores :
       /\ topAcc' \in PushOne(topAcc, id, score, topK)
       /\ topSeen' = [topSeen EXCEPT ![id] = IF score > @ THEN score ELSE @]
  /\ topCount' = topCount + 1
  /\ UNCHANGED <<topK, topOut, topPc>>

\* PopAll()
TopKPopAll ==
  /\ topPc = "push"
  /\ topOut' \in PopAll(topAcc)
  /\ topPc' = "popped"
  /\ UNCHANGED <<topK, topAcc, topSeen, topCount>>

NextTopK ==
  \/ (TopKPush /\ UNCHANGED <<loopVars, leaseVars, simVars, popVars, extraVars>>)
  \/ (TopKPopAll /\ UNCHANGED <<loopVars, leaseVars, simVars, popVars, extraVars>>)

SpecTopK == InitTopK /\ [][NextTopK]_vars

(***************************************************************************)
(* SpecSimilar: CollectSimilar, lines 459-511, with NumSimilar > 0.        *)
(***************************************************************************)
\* The elements of a slice.
Range(a) == {a[k] : k \in 1..Len(a)}

\* A set of indices as a slice, in rising order.
RECURSIVE Ascending(_)
Ascending(S) ==
  IF S = {} THEN <<>>
  ELSE LET m == CHOOSE x \in S : \A y \in S : x <= y
       IN <<m>> \o Ascending(S \ {m})

\* Dot, lines 513-525: the number of entries of b that are in a.
DotBuggy(a, b) ==
  LET intersect == Cardinality({k \in 1..Len(b) : b[k] \in Range(a)})
  IN IF intersect = 0 THEN 0 ELSE intersect \div Len(a)

Dot(a, b) ==
  LET intersect == Cardinality({k \in 1..Len(b) : b[k] \in Range(a)})
  IN IF intersect = 0 THEN 0 ELSE intersect

\* dataset.UserFeedback[u]: the items user u gave feedback to.
UserFeedback(u) == {j \in SimItems : u \in Range(itemFeedback[j])}

\* Lines 480-485: itemSet, the candidates of item jobId.
ItemSet(jobId) == UNION {UserFeedback(u) : u \in Range(itemFeedback[jobId])}

\* Lines 487-492: what is pushed into nearItems for item jobId.
NearPushesBuggy(jobId) ==
  LET js == Ascending(ItemSet(jobId))
  IN [p \in 1..Len(js) |->
        [id |-> js[p], score |-> Dot(itemFeedback[jobId], itemFeedback[js[p]])]]

NearPushes(jobId) ==
  LET js == Ascending(ItemSet(jobId) \ {jobId})
  IN [p \in 1..Len(js) |->
        [id |-> js[p], score |-> Dot(itemFeedback[jobId], itemFeedback[js[p]])]]

\* The accumulators a sequence of pushes may leave.
RECURSIVE PushAll(_, _, _)
PushAll(accs, pushes, k) ==
  IF pushes = <<>> THEN accs
  ELSE PushAll(UNION {PushOne(acc, Head(pushes).id, Head(pushes).score, k) : acc \in accs},
               Tail(pushes), k)

\* Lines 487-497: the values recommends may take after these pushes.
Recommends(pushes) ==
  {[p \in 1..Len(elem) |-> ToName(elem[p])] :
     elem \in UNION {PopAll(acc) : acc \in PushAll({{}}, pushes, numSimilar)}}

simLoopIdle == loopIdle /\ leaseIdle /\ timeout = 1 /\ topIdle /\ popIdle /\ extraIdle

\* CollectSimilar is called with a dataset: every item's users, each once.
InitSimilar ==
  /\ \E users \in [SimItems -> SUBSET SimUsers] :
       itemFeedback = [i \in SimItems |-> Ascending(users[i])]
  /\ numSimilar \in 1..MaxK
  /\ simJobs \in 1..MaxJobs
  /\ task = [i \in SimItems |-> "todo"]
  /\ pushed = [i \in SimItems |-> <<>>]
  /\ simList = [id \in SimNames |-> NoList]
  /\ simPc = "parallel"
  /\ simClock = FALSE
  /\ snapshot = itemFeedback
  /\ taken = [i \in SimItems |-> 0]
  /\ wrote = [id \in SimNames |-> <<>>]
  /\ simLoopIdle

\* A worker of base.Parallel takes the next item and runs lines 480-492 on it.
SimilarCompute ==
  /\ simPc = "parallel"
  /\ Cardinality({i \in SimItems : task[i] = "running"}) < simJobs
  /\ \E jobId \in SimItems :
       /\ task[jobId] = "todo"
       /\ \A i \in SimItems : i < jobId => task[i] # "todo"
       /\ task' = [task EXCEPT ![jobId] = "running"]
       /\ pushed' = [pushed EXCEPT ![jobId] = NearPushes(jobId)]
       /\ taken' = [taken EXCEPT ![jobId] = @ + 1]
  /\ UNCHANGED <<itemFeedback, numSimilar, simJobs, simList, simPc, simClock, snapshot, wrote>>

\* Line 498: the key the list of item jobId is stored under.
ListKeyBuggy(jobId) == ToName(0)

ListKey(jobId) == ToName(jobId)

\* Lines 493-502: the worker pops recommends and writes the list of its item;
\* an error of SetList is returned to base.Parallel.
SimilarStore ==
  /\ \E jobId \in SimItems, setListFails \in BOOLEAN :
       /\ task[jobId] = "running"
       /\ task' = [task EXCEPT ![jobId] = IF setListFails THEN "failed" ELSE "done"]
       /\ \E recommends \in Recommends(pushed[jobId]) :
            simList' = IF setListFails THEN simList
                       ELSE [simList EXCEPT ![ListKey(jobId)] =
                                               [set |-> TRUE, list |-> recommends]]
       /\ wrote' = IF setListFails THEN wrote
                    ELSE [wrote EXCEPT ![ListKey(jobId)] = Append(@, jobId)]
  /\ UNCHANGED <<itemFeedback, numSimilar, simJobs, pushed, simPc, simClock, snapshot, taken>>

\* base.Parallel returns: no worker is running, and either every item was
\* worked on or a worker returned an error (lines 503-506: it is logged).
ParallelReturn ==
  /\ simPc = "parallel"
  /\ \A i \in SimItems : task[i] # "running"
  /\ \/ \A i \in SimItems : task[i] # "todo"
     \/ \E i \in SimItems : task[i] = "failed"
  /\ simPc' = "clock"
  /\ UNCHANGED <<itemFeedback, numSimilar, simJobs, task, pushed, simList, simClock,
                 snapshot, taken, wrote>>

\* Lines 507-509: the clock is written; an error of SetString is logged.
SimilarClock ==
  /\ simPc = "clock"
  /\ \E setStringFails \in BOOLEAN : simClock' = ~setStringFails
  /\ simPc' = "done"
  /\ UNCHANGED <<itemFeedback, numSimilar, simJobs, task, pushed, simList,
                 snapshot, taken, wrote>>

NextSimilar ==
  \/ (SimilarCompute /\ UNCHANGED <<loopVars, leaseVars, topVars, popVars, extraVars>>)
  \/ (SimilarStore /\ UNCHANGED <<loopVars, leaseVars, topVars, popVars, extraVars>>)
  \/ (ParallelReturn /\ UNCHANGED <<loopVars, leaseVars, topVars, popVars, extraVars>>)
  \/ (SimilarClock /\ UNCHANGED <<loopVars, leaseVars, topVars, popVars, extraVars>>)

SpecSimilar == InitSimilar /\ [][NextSimilar]_vars

(***************************************************************************)
(* SpecPopular: CollectPopItem, lines 386-427, with NumPopular > 0.        *)
(***************************************************************************)
\* Line 399: fb.Timestamp.After(timeWindowLimit), for a timestamp age days
\* before now and a limit window days before now.
InWindowBuggy(age, window) == age <= window

InWindow(age, window) == age < window

\* Lines 397-402: the count map; an id is a key once it was incremented.
CountOf(feedback, window) ==
  [id \in PopIds |->
     LET n == Cardinality({k \in 1..Len(feedback) :
                             feedback[k].item = id /\ InWindow(feedback[k].age, window)})
     IN [has |-> n > 0, n |-> n]]

\* The orders in which range may visit the keys of a map.
RangeOrders(keys) ==
  {ord \in [1..Cardinality(keys) -> keys] :
     \A p, q \in 1..Cardinality(keys) : p < q => ord[p] # ord[q]}

\* Lines 406-415: the pushes into the filter of label, visiting in order ord.
PopPushes(ord, label) ==
  LET all == [p \in 1..Len(ord) |-> [id |-> ord[p], score |-> popCount[ord[p]].n]]
  IN SelectSeq(all, LAMBDA e : label = "" \/ label \in PopLabelsOf(e.id))

popLoopIdle == loopIdle /\ leaseIdle /\ timeout = 1 /\ topIdle /\ simIdle /\ extraIdle

InitPopular ==
  /\ \E n \in 0..MaxEvents :
       popFeedback \in [1..n -> [item : PopIds, age : PopAges]]
  /\ numPopular \in 1..MaxK
  /\ timeWindow \in TimeWindows
  /\ popNow \in {0, MaxNow}
  /\ popCount = NoCount
  /\ popFilters = NoFilters
  /\ popLists = NoPopLists
  /\ popPc = "count"
  /\ popClock = Absent
  /\ popLoopIdle

\* Lines 396-402.
PopCount ==
  /\ popPc = "count"
  /\ popCount' = CountOf(popFeedback, timeWindow)
  /\ popPc' = "push"
  /\ UNCHANGED <<popFeedback, numPopular, timeWindow, popNow, popFilters, popLists, popClock>>

\* Lines 404-415: the filter of "" always exists, the filter of a label once
\* a counted item carries it.
PopPush ==
  /\ popPc = "push"
  /\ \E ord \in RangeOrders({id \in PopIds : popCount[id].has}) :
       \E global \in PushAll({{}}, PopPushes(ord, ""), numPopular),
          labelled \in PushAll({{}}, PopPushes(ord, "L"), numPopular) :
         popFilters' = [l \in PopLabelSpace |->
                          [exists |-> l = "" \/ PopPushes(ord, l) # <<>>,
                           acc |-> IF l = "" THEN global ELSE labelled]]
  /\ popPc' = "write"
  /\ UNCHANGED <<popFeedback, numPopular, timeWindow, popNow, popCount, popLists, popClock>>

\* Lines 417-422: one SetList per filter; its error is logged.
PopWrite ==
  /\ popPc = "write"
  /\ \E label \in PopLabelSpace, setListFails \in BOOLEAN :
       /\ popFilters[label].exists
       /\ popLists[label].state = "none"
       /\ \E result \in PopAll(popFilters[label].acc) :
            popLists' = [popLists EXCEPT ![label] =
                           IF setListFails THEN [state |-> "failed", list |-> <<>>]
                           ELSE [state |-> "stored", list |-> result]]
       /\ popPc' = IF \A l \in PopLabelSpace \ {label} :
                        popFilters[l].exists => popLists[l].state # "none"
                   THEN "clock" ELSE "write"
  /\ UNCHANGED <<popFeedback, numPopular, timeWindow, popNow, popCount, popFilters, popClock>>

\* Lines 423-425.
PopClock ==
  /\ popPc = "clock"
  /\ \E setStringFails \in BOOLEAN :
       popClock' = IF setStringFails THEN popClock ELSE Now(popNow)
  /\ popPc' = "done"
  /\ UNCHANGED <<popFeedback, numPopular, timeWindow, popNow, popCount, popFilters, popLists>>

NextPopular ==
  \/ (PopCount /\ UNCHANGED <<loopVars, leaseVars, topVars, simVars, extraVars>>)
  \/ (PopPush /\ UNCHANGED <<loopVars, leaseVars, topVars, simVars, extraVars>>)
  \/ (PopWrite /\ UNCHANGED <<loopVars, leaseVars, topVars, simVars, extraVars>>)
  \/ (PopClock /\ UNCHANGED <<loopVars, leaseVars, topVars, simVars, extraVars>>)

SpecPopular == InitPopular /\ [][NextPopular]_vars

(***************************************************************************)
(* SpecPeriod: the loop period, lines 258-266, and the sleep, line 328.    *)
(***************************************************************************)
PeriodsOf(c) == {c.cfFit, c.rankFit, c.similar, c.popular, c.latest}

\* Every machine but the loop period at rest.
restIdle == loopIdle /\ leaseIdle /\ timeout = 1 /\ topIdle /\ simIdle /\ popIdle

InitPeriod ==
  /\ periods \in [cfFit : 1..MaxPeriod, rankFit : 1..MaxPeriod, similar : 1..MaxPeriod,
                   popular : 1..MaxPeriod, latest : 1..MaxPeriod]
  /\ loopPeriod = 0
  /\ slept = 0
  /\ restIdle
  /\ staleIdle
  /\ pageIdle
  /\ progIdle

\* Lines 260-265.
LoopGCD ==
  /\ loopPeriod = 0
  /\ loopPeriod' = LoopPeriod(periods)
  /\ UNCHANGED <<periods, slept>>

\* Line 328: time.Sleep(time.Duration(loopPeriod) * time.Minute).
LoopSleepPeriod ==
  /\ loopPeriod # 0
  /\ slept = 0
  /\ slept' = loopPeriod
  /\ UNCHANGED <<periods, loopPeriod>>

NextPeriod ==
  \/ (LoopGCD /\ UNCHANGED <<loopVars, leaseVars, topVars, simVars, popVars, staleVars, pageVars,
                  progVars>>)
  \/ (LoopSleepPeriod /\ UNCHANGED <<loopVars, leaseVars, topVars, simVars, popVars, staleVars, pageVars,
                  progVars>>)

SpecPeriod == InitPeriod /\ [][NextPeriod]_vars

(***************************************************************************)
(* SpecStale: one call of IsStale, lines 370-384.                          *)
(***************************************************************************)
\* The last tick of the modelled clock.
LastTick == MaxNow * TicksPerMinute

\* The texts a clock key may hold: none, no timestamp, or a timestamp.
ClockTexts == {Absent, Garbage} \cup {Now(t) : t \in 0..LastTick}

InitStale ==
  /\ staleText \in ClockTexts
  /\ staleNow \in 0..LastTick
  /\ staleLimit \in 0..MaxNow
  /\ staleResult = "none"
  /\ restIdle
  /\ perIdle
  /\ pageIdle
  /\ progIdle

\* IsStale(dateTimeField, timeLimit) with the store answering.
IsStaleCall ==
  /\ staleResult = "none"
  /\ staleResult' = IsStale([k \in {CollectPopularTime} |-> staleText], FALSE,
                            staleNow, CollectPopularTime, staleLimit)
  /\ UNCHANGED <<staleText, staleNow, staleLimit>>

NextStale ==
  \/ (IsStaleCall /\ UNCHANGED <<loopVars, leaseVars, topVars, simVars, popVars, perVars, pageVars,
                     progVars>>)

SpecStale == InitStale /\ [][NextStale]_vars

(***************************************************************************)
(* SpecPage: GetItems, GetUsers and GetFeedback of mongodb.go, called with *)
(* cursor "" and then with each cursor returned, on a collection that does *)
(* not change.                                                             *)
(***************************************************************************)
\* Strings in the order MongoDB sorts them.
IdOrder == <<"", "a", "b", "c">>
TypeOrder == <<"", "like", "read">>
IdRank(id) == CHOOSE r \in 1..Len(IdOrder) : IdOrder[r] = id
TypeRank(t) == CHOOSE r \in 1..Len(TypeOrder) : TypeOrder[r] = t

\* The keys of items and users (itemid, userid) and of feedback
\* (feedbackkey: the feedback type, then the user and item ids).
IdKeys == {[type |-> "", id |-> IdOrder[r]] : r \in 1..Len(IdOrder)}
FeedbackKeys == [type : {"like", "read"}, id : {"a", "b"}]

\* $gt and the sort order: strings by rank, documents field by field.
KeyGt(k, l) ==
  \/ TypeRank(k.type) > TypeRank(l.type)
  \/ k.type = l.type /\ IdRank(k.id) > IdRank(l.id)

\* Feedback.ToString and FeedbackKeyFromString: the key as text and back.
FeedbackToString(k) ==
  CASE k = [type |-> "like", id |-> "a"] -> "like/a"
    [] k = [type |-> "like", id |-> "b"] -> "like/b"
    [] k = [type |-> "read", id |-> "a"] -> "read/a"
    [] OTHER -> "read/b"

FeedbackKeyFromString(text) == CHOOSE k \in FeedbackKeys : FeedbackToString(k) = text

\* The filter handed to Find: lines 94, 180 and 278-300.
Matches(kind, key, cursor, feedbackType) ==
  IF kind = "feedback"
    THEN /\ feedbackType # "" => key.type = feedbackType
         /\ cursor # "" => KeyGt(key, FeedbackKeyFromString(cursor))
    ELSE IdRank(key.id) > IdRank(cursor)

\* SetSort: the keys of a set in rising order.
RECURSIVE Sorted(_)
Sorted(S) ==
  IF S = {} THEN <<>>
  ELSE LET m == CHOOSE x \in S : \A y \in S \ {x} : KeyGt(y, x)
       IN <<m>> \o Sorted(S \ {m})

\* Find with SetLimit(n) and SetSort: the first n matching keys.
Find(kind, store, cursor, feedbackType, n) ==
  LET all == Sorted({k \in store : Matches(kind, k, cursor, feedbackType)})
  IN IF Len(all) <= n THEN all ELSE SubSeq(all, 1, n)

\* Lines 106-110, 192-196 and 314-321: the cursor returned with a page.
NextCursor(kind, page, n) ==
  IF Len(page) = n
    THEN (IF kind = "feedback" THEN FeedbackToString(page[n]) ELSE page[n].id)
    ELSE ""

InitPage ==
  /\ pgKind \in {"items", "users", "feedback"}
  /\ pgStore \in IF pgKind = "feedback" THEN SUBSET FeedbackKeys ELSE SUBSET IdKeys
  /\ pgType \in IF pgKind = "feedback" THEN {"", "like", "read"} ELSE {""}
  /\ pgN \in 1..MaxPage
  /\ pgCursor = ""
  /\ pgOut = <<>>
  /\ pgCalls = 0
  /\ pgPc = "call"
  /\ restIdle
  /\ perIdle
  /\ staleIdle
  /\ progIdle

\* One call of GetItems, GetUsers or GetFeedback, with the store answering.
GetPage ==
  /\ pgPc = "call"
  /\ pgCalls <= Cardinality(pgStore) + 1
  /\ LET page == Find(pgKind, pgStore, pgCursor, pgType, pgN)
     IN /\ pgOut' = pgOut \o page
        /\ pgCursor' = NextCursor(pgKind, page, pgN)
        /\ pgPc' = IF NextCursor(pgKind, page, pgN) = "" THEN "done" ELSE "call"
  /\ pgCalls' = pgCalls + 1
  /\ UNCHANGED <<pgKind, pgStore, pgType, pgN>>

NextPage ==
  \/ (GetPage /\ UNCHANGED <<loopVars, leaseVars, topVars, simVars, popVars, perVars, staleVars,
                 progVars>>)

SpecPage == InitPage /\ [][NextPage]_vars

(***************************************************************************)
(* The progress channel of CollectSimilar (lines 462-506): the workers of  *)
(* base.Parallel send on it, the reporter goroutine receives from it, and  *)
(* CollectSimilar closes it when base.Parallel has returned.               *)
(***************************************************************************)
ProgWorkers == 1..progJobs

InitProgress ==
  /\ progItems \in 1..MaxItems
  /\ progJobs \in 1..MaxJobs
  /\ progFaults \in 0..MaxFaults
  /\ nextJob = 0
  /\ worker = [w \in 1..MaxJobs |-> IF w <= progJobs THEN "idle" ELSE "returned"]
  /\ parErr = FALSE
  /\ completed = [len |-> 0, closed |-> FALSE]
  /\ completedCount = 0
  /\ reporter = "select"
  /\ logged = -1
  /\ progPc = "parallel"
  /\ closes = 0
  /\ sent = 0
  /\ parked = FALSE
  /\ restIdle
  /\ perIdle
  /\ staleIdle
  /\ pageIdle

\* base.Parallel hands the next jobId to a worker that is free.
WorkerTake(w) ==
  /\ progPc = "parallel"
  /\ worker[w] = "idle"
  /\ nextJob < progItems
  /\ worker' = [worker EXCEPT ![w] = "store"]
  /\ nextJob' = nextJob + 1
  /\ UNCHANGED <<progItems, progJobs, progFaults, parErr, completed, completedCount,
                 reporter, logged, progPc, closes, sent, parked>>

\* Lines 480-500: the worker function up to SetList; its error is returned
\* before the send.
WorkerStore(w) ==
  /\ progPc = "parallel"
  /\ worker[w] = "store"
  /\ \E setListFails \in BOOLEAN :
       /\ setListFails => progFaults > 0
       /\ progFaults' = IF setListFails THEN progFaults - 1 ELSE progFaults
       /\ parErr' = (parErr \/ setListFails)
       /\ worker' = [worker EXCEPT ![w] = IF setListFails THEN "idle" ELSE "send"]
       /\ parked' = (parked \/ (~setListFails /\ completed.len = ChanSize))
  /\ UNCHANGED <<progItems, progJobs, nextJob, completed, completedCount,
                 reporter, logged, progPc, closes, sent>>

\* Line 501, completed <- nil: the send waits while the buffer is full and
\* panics on a closed channel; line 502 returns nil.
WorkerSend(w) ==
  /\ progPc # "panic"
  /\ worker[w] = "send"
  /\ \/ /\ completed.closed
        /\ progPc' = "panic"
        /\ UNCHANGED <<worker, completed, sent>>
     \/ /\ ~completed.closed
        /\ completed.len < ChanSize
        /\ completed' = [completed EXCEPT !.len = @ + 1]
        /\ worker' = [worker EXCEPT ![w] = "idle"]
        /\ sent' = sent + 1
        /\ UNCHANGED progPc
  /\ UNCHANGED <<progItems, progJobs, progFaults, nextJob, parErr, completedCount,
                 reporter, logged, closes, parked>>

\* A worker of base.Parallel returns when no jobId is left; after an error
\* of a worker function it may return with jobIds left.
WorkerExit(w) ==
  /\ progPc = "parallel"
  /\ worker[w] = "idle"
  /\ nextJob = progItems \/ parErr
  /\ worker' = [worker EXCEPT ![w] = "returned"]
  /\ UNCHANGED <<progItems, progJobs, progFaults, nextJob, parErr, completed,
                 completedCount, reporter, logged, progPc, closes, sent, parked>>

\* Lines 479 and 503-505: base.Parallel returns once every worker has
\* returned; its error is logged.
ParallelWait ==
  /\ progPc = "parallel"
  /\ \A w \in ProgWorkers : worker[w] = "returned"
  /\ progPc' = "close"
  /\ UNCHANGED <<progItems, progJobs, progFaults, nextJob, worker, parErr, completed,
                 completedCount, reporter, logged, closes, sent, parked>>

\* Line 506, close(completed): closing a closed channel panics.
CloseCompleted ==
  /\ progPc = "close"
  /\ closes' = closes + 1
  /\ IF completed.closed
       THEN progPc' = "panic" /\ UNCHANGED completed
       ELSE progPc' = "clock" /\ completed' = [completed EXCEPT !.closed = TRUE]
  /\ UNCHANGED <<progItems, progJobs, progFaults, nextJob, worker, parErr,
                 completedCount, reporter, logged, sent, parked>>

\* Lines 507-509: the clock is written and CollectSimilar returns.
ProgressClock ==
  /\ progPc = "clock"
  /\ progPc' = "done"
  /\ UNCHANGED <<progItems, progJobs, progFaults, nextJob, worker, parErr, completed,
                 completedCount, reporter, logged, closes, sent, parked>>

ReceivedBuggy(ok) == "returned"

\* Lines 470-473: the reporter returns when the receive reports the channel
\* closed and drained, and goes on otherwise.
Received(ok) == IF ok THEN "select" ELSE "returned"

\* Line 469, the receive case of the select: a buffered value is received
\* with ok true; a closed channel with nothing buffered gives ok false.
ReporterReceive ==
  /\ progPc # "panic"
  /\ reporter = "select"
  /\ completed.len > 0 \/ completed.closed
  /\ LET ok == completed.len > 0 IN
       /\ reporter' = Received(ok)
       /\ completed' = IF ok THEN [completed EXCEPT !.len = @ - 1] ELSE completed
       /\ completedCount' = IF ok THEN completedCount + 1 ELSE completedCount
  /\ UNCHANGED <<progItems, progJobs, progFaults, nextJob, worker, parErr,
                 logged, progPc, closes, sent, parked>>

\* Lines 474-475, the ticker case of the select: the count is logged.
ReporterTick ==
  /\ progPc # "panic"
  /\ reporter = "select"
  /\ logged' = completedCount
  /\ UNCHANGED <<progItems, progJobs, progFaults, nextJob, worker, parErr, completed,
                 completedCount, reporter, progPc, closes, sent, parked>>

progRest == <<loopVars, leaseVars, topVars, simVars, popVars, perVars, staleVars,
              pageVars>>

NextProgress ==
  \/ \E w \in ProgWorkers : WorkerTake(w) /\ UNCHANGED progRest
  \/ \E w \in ProgWorkers : WorkerStore(w) /\ UNCHANGED progRest
  \/ \E w \in ProgWorkers : WorkerSend(w) /\ UNCHANGED progRest
  \/ \E w \in ProgWorkers : WorkerExit(w) /\ UNCHANGED progRest
  \/ (ParallelWait /\ UNCHANGED progRest)
  \/ (CloseCompleted /\ UNCHANGED progRest)
  \/ (ProgressClock /\ UNCHANGED progRest)
  \/ (ReporterReceive /\ UNCHANGED progRest)
  \/ (ReporterTick /\ UNCHANGED progRest)

\* Every goroutine that can run is run in the end, and the select of the
\* reporter, which picks among its ready cases at random, takes the receive
\* in the end while a value is buffered or the channel is closed.
FairProgress ==
  /\ \A w \in 1..MaxJobs :
       /\ WF_vars(WorkerTake(w) /\ UNCHANGED progRest)
       /\ WF_vars(WorkerStore(w) /\ UNCHANGED progRest)
       /\ WF_vars(WorkerSend(w) /\ UNCHANGED progRest)
       /\ WF_vars(WorkerExit(w) /\ UNCHANGED progRest)
  /\ WF_vars(ParallelWait /\ UNCHANGED progRest)
  /\ WF_vars(CloseCompleted /\ UNCHANGED progRest)
  /\ WF_vars(ProgressClock /\ UNCHANGED progRest)
  /\ WF_vars(ReporterReceive /\ UNCHANGED progRest)

SpecProgress == InitProgress /\ [][NextProgress]_vars /\ FairProgress

(***************************************************************************)
(* Properties.                                                             *)
(***************************************************************************)
Slots == {"rank", "match"}

\* v as a Go int: reduced into MinInt..MaxInt.
AsInt(v) == ((v - MinInt) % (MaxInt - MinInt + 1)) + MinInt

\* C1 as the spec states it: the versions a slot shows after its publishes are
\* 1, 2, ..., N.
C1_VersionsCountFromOne ==
  \A s \in Slots : \A i \in 1..Len(published[s]) : published[s][i].version = i

\* C1, amended: the versions a slot shows after its publishes are v0+1, v0+2,
\* ..., v0+N in the wrapping arithmetic of a Go int, v0 being the value
\* NewMaster drew for the slot with rand.Int(): each publish raises the
\* version by exactly one, and the slot holds the version of its last publish.
C1_VersionsFollowInit ==
  /\ \A s \in Slots : \A i \in 1..Len(published[s]) :
       published[s][i].version = AsInt(initVersion[s] + i)
  /\ rankModelVersion = AsInt(initVersion.rank + Len(published.rank))
  /\ matchModelVersion = AsInt(initVersion.match + Len(published.match))

\* Two publishes on one slot, the counter having started at the largest value
\* rand.Int() gives.
C1_Witness ==
  \E s \in Slots : Len(published[s]) >= 2 /\ initVersion[s] = MaxRand

\* C2: the (version, artifact) of every response of GetRankModel,
\* GetRankModelVersion, GetMatchModel and GetMatchModelVersion is a pair the
\* slot held at one instant: the untrained slot, or the artifact of some
\* publish with the version of that same publish; and the bytes of the
\* response encode that artifact.
C2_SnapshotAtomic ==
  (resp.call # "none" /\ ~resp.err) =>
    IF resp.saw = NilModel
      THEN resp.version = 0 /\ resp.model = NoBytes
      ELSE /\ \E i \in 1..Len(published[SlotOf(resp.call)]) :
                /\ published[SlotOf(resp.call)][i].model = resp.saw
                /\ published[SlotOf(resp.call)][i].version = resp.version
           /\ WithBytes(resp.call) => resp.model = EncodeModel(resp.saw)

\* A handler has returned a trained model while the scheduler stands before
\* the publish of the next one.
C2_Witness ==
  /\ resp.call # "none" /\ ~resp.err /\ resp.saw # NilModel
  /\ pc \in {"rankLock", "cfLock"}
  /\ Len(published[SlotOf(resp.call)]) >= 1

\* C3: a response returned while the slot had no publish yet has version 0,
\* no bytes and no error, and EncodeModel was not called for it.
C3_UntrainedReply ==
  (resp.call # "none" /\ resp.pubs = 0) =>
    /\ resp.version = 0
    /\ resp.model = NoBytes
    /\ ~resp.err
    /\ ~resp.encoded

\* GetRankModel has answered for the unpublished rank slot, whose counter is
\* not 0.
C3_Witness ==
  /\ resp.call = "GetRankModel" /\ resp.pubs = 0
  /\ initVersion.rank # 0

\* C9: for every clock key that is unset or holds text that is no timestamp,
\* and every period, IsStale answers true when the store answers the lookup,
\* and does not end the process; Loop's flags of such keys are set.
C9_StaleFailsOpen ==
  \A k \in ClockKeys :
    cacheStore[k].kind \in {"absent", "garbage"} =>
      /\ \A timeLimit \in 0..MaxNow :
           IsStale(cacheStore, FALSE, now, k, timeLimit) = "stale"
      /\ pc = "rank" =>
           CASE k = CollectPopularTime -> stale.pop
             [] k = CollectLatestTime -> stale.latest
             [] k = CollectSimilarTime -> stale.similar
             [] k = LastFitRankModelTime -> stale.rank
             [] OTHER -> stale.cf

\* The five IsStale calls have returned; one key held text that is no
\* timestamp, another was never set.
C9_Witness ==
  /\ pc = "rank"
  /\ cacheStore[CollectPopularTime] = Garbage
  /\ cacheStore[CollectLatestTime] = Absent
  /\ stale.pop /\ stale.latest

\* C10 as the spec states it: a job that failed leaves its staleness clock as
\* it was.
C10_ClockOnlyOnSuccess ==
  lastJob.outcome = "failed" => lastJob.after = lastJob.before


\* No handler and no callback is at work on address a.
Quiet(a) == reg[a] = "" /\ sweep.key # a

\* The number of times address a stands in a list of a GetCluster response.
Count(list, a) == Cardinality({i \in 1..Len(list) : list[i] = a})

Listed(a) == Count(cluster.workers, a) + Count(cluster.servers, a) > 0

C8_ListedUnderLastRole ==
  cluster.valid =>
    \A a \in Addrs :
      (Quiet(a) /\ ttlCache[a].present) =>
        /\ Count(cluster.servers, a) = IF ttlCache[a].data = ServerNode THEN 1 ELSE 0
        /\ Count(cluster.workers, a) = IF ttlCache[a].data = WorkerNode THEN 1 ELSE 0


\* The slot holds what its last successful fit job left: the version that job
\* wrote to the CacheStore, or no model when no fit job has succeeded yet.
SlotAsLastSuccess(model, version, versionKey) ==
  IF cacheStore[versionKey].kind = "hex"
    THEN version = cacheStore[versionKey].val
    ELSE model = NilModel

\* C11 as the spec states it: when FitRankModel or FitCFModel has returned an
\* error, the process is still running, the job's clock is as it was before
\* the job, and the slot holds the artifact and version of the last fit job
\* that succeeded.
C11_FitFailureOnlyLogged ==
  /\ (lastJob.job = "FitRankModel" /\ lastJob.outcome = "failed"
        /\ pc \in {"cf", "dead"}) =>
       /\ pc # "dead"
       /\ lastJob.after = lastJob.before
       /\ SlotAsLastSuccess(rankModel, rankModelVersion, LatestRankModelVersion)
  /\ (lastJob.job = "FitCFModel" /\ lastJob.outcome = "failed" /\ pc = "sleep") =>
       /\ lastJob.after = lastJob.before
       /\ SlotAsLastSuccess(cfModel, matchModelVersion, LatestCFModelVersion)


\* C12: a step in which rank.LoadDataFromDatabase or cf.LoadDataFromDatabase
\* returns an error ends the process and changes no model slot, no clock and
\* no list; and once the process has ended nothing of the scheduler's state
\* changes any more: no job runs and no iteration starts.
C12_LoadFailureIsFatal ==
  [][/\ (pc \in {"rank", "cf"} /\ faults' > faults) =>
          /\ pc' = "dead"
          /\ UNCHANGED <<slotVars, published, cacheStore, cacheLists, lastJob>>
     /\ pc = "dead" =>
          UNCHANGED <<pc, now, slotVars, published, cacheStore, cacheLists, lastJob>>]_vars

\* The process has ended in the first iteration at the load of the CF dataset,
\* after a rank fit of that iteration that succeeded.
C12_Witness ==
  /\ pc = "dead" /\ now = 0 /\ faults = 1
  /\ lastJob.job = "FitRankModel" /\ lastJob.outcome = "ok"
  /\ Len(published.rank) = 1
  /\ cfModel = NilModel
  /\ \A s \in ListSpaces : cacheLists[s] = -1


\* The slot had no model when this iteration began: every publish on it so far
\* is one of this iteration.
NilBefore(s) == \A i \in 1..Len(published[s]) : published[s][i].at = now

\* The period, in minutes, cfg gives the clock key k.
PeriodOf(k) ==
  CASE k = CollectPopularTime -> cfg.popular
    [] k = CollectLatestTime -> cfg.latest
    [] k = CollectSimilarTime -> cfg.similar
    [] k = LastFitRankModelTime -> cfg.rankFit
    [] OTHER -> cfg.cfFit

\* The flag Loop keeps for the clock key k.
FlagOf(k) ==
  CASE k = CollectPopularTime -> stale.pop
    [] k = CollectLatestTime -> stale.latest
    [] k = CollectSimilarTime -> stale.similar
    [] k = LastFitRankModelTime -> stale.rank
    [] OTHER -> stale.cf

\* C13 as the spec states it: at the end of an iteration the jobs that were
\* run are exactly the due ones: the rank fit iff its clock was stale or there
\* was no rank model, the match fit iff its clock was stale or there was no
\* match model, each collection iff its own clock was stale.
C13_DueSetExact ==
  pc = "sleep" =>
    /\ ran["FitRankModel"] # 0 <=> (stale.rank \/ NilBefore("rank"))
    /\ ran["FitCFModel"] # 0 <=> (stale.cf \/ NilBefore("match"))
    /\ ran["CollectPopItem"] # 0 <=> stale.pop
    /\ ran["CollectLatest"] # 0 <=> stale.latest
    /\ ran["CollectSimilar"] # 0 <=> stale.similar

\* C13, amended: the flags of an iteration are what IsStale answers for the
\* five clocks; at the end of an iteration the rank fit was run iff it was due
\* (clock stale or no rank model) and the rank dataset loaded was not empty,
\* and the match fit and each collection were run iff they were due (match:
\* clock stale or no match model; collections: own clock stale) and the CF
\* dataset loaded was not empty. No job is run because another one is due.
C13_DueSetOfLoadedData ==
  /\ pc = "rank" =>
       \A k \in ClockKeys :
         FlagOf(k) <=> IsStale(cacheStore, FALSE, now, k, PeriodOf(k)) = "stale"
  /\ pc = "sleep" =>
       /\ ran["FitRankModel"] # 0 <=>
            ((stale.rank \/ NilBefore("rank")) /\ rankDataSet = "loaded")
       /\ ran["FitCFModel"] # 0 <=>
            ((stale.cf \/ NilBefore("match")) /\ dataSet = "loaded")
       /\ ran["CollectPopItem"] # 0 <=> (stale.pop /\ dataSet = "loaded")
       /\ ran["CollectLatest"] # 0 <=> (stale.latest /\ dataSet = "loaded")
       /\ ran["CollectSimilar"] # 0 <=> (stale.similar /\ dataSet = "loaded")

\* The second iteration of a master whose fit and similar periods are twice
\* its popular and latest periods, one loop period and a tick after a first
\* iteration that ran all five jobs: only Popular and Latest were run.
C13_Witness ==
  /\ pc = "sleep" /\ now = LoopPeriod(cfg) * TicksPerMinute + 1
  /\ cfg.rankFit = 2 * cfg.popular /\ cfg.cfFit = 2 * cfg.popular
  /\ cfg.similar = 2 * cfg.popular /\ cfg.latest = cfg.popular
  /\ \A k \in {LastFitRankModelTime, LastFitCFModelTime, CollectSimilarTime} :
       cacheStore[k] = Now(0)
  /\ cacheStore[CollectPopularTime] = Now(now)
  /\ cacheStore[CollectLatestTime] = Now(now)
  /\ ran["CollectPopItem"] # 0 /\ ran["CollectLatest"] # 0
  /\ ran["FitRankModel"] = 0 /\ ran["FitCFModel"] = 0 /\ ran["CollectSimilar"] = 0


\* The jobs that are handed the dataset of cf.LoadDataFromDatabase.
CFJobs == {"CollectPopItem", "CollectLatest", "CollectSimilar", "FitCFModel"}

\* C14: in an iteration cf.LoadDataFromDatabase is called at most once; once
\* Loop is past line 289 it was called iff the match, popular, latest or
\* similar clock was stale or there was no match model; and every one of the
\* four jobs that was run was handed the data of that one load.
C14_LoadOnceAndShare ==
  /\ loads <= 1
  /\ pc \in {"popular", "latest", "similar", "cfFit", "cfLock", "cfIncr",
             "cfMeta", "sleep"} =>
       (loads = 1 <=>
          (stale.cf \/ stale.pop \/ stale.latest \/ stale.similar \/ NilBefore("match")))
  /\ pc \in {"rank", "rankFit", "rankLock", "rankIncr", "rankMeta", "cf"} => loads = 0
  /\ \A j \in CFJobs :
       ran[j] # 0 => (ran[j] = 1 /\ loads = 1 /\ (dataSet = "loaded" \/ pc = "check"))

\* An iteration has run all four jobs on the data of its one load.
C14_Witness ==
  /\ pc = "sleep" /\ loads = 1 /\ dataSet = "loaded"
  /\ \A j \in CFJobs : ran[j] = 1
  /\ now > 0


\* A clock key or a list that was written in the current iteration.
WrittenNow(k) == cacheStore[k] = Now(now)

\* C15: after rank.LoadDataFromDatabase has returned an empty dataset, Loop
\* is past the rank job without having called FitRankModel: no rank model was
\* published and the rank clock was not written in this iteration. After
\* cf.LoadDataFromDatabase has returned an empty dataset, Loop is at its
\* sleep, none of the four jobs was called, no match model was published and
\* no clock and no list of theirs was written in this iteration. The process
\* has not ended in either step.
C15_EmptyDatasetSkips ==
  /\ rankDataSet = "empty" =>
       /\ pc \in {"cf", "popular", "latest", "similar", "cfFit", "cfLock",
                  "cfIncr", "cfMeta", "sleep", "dead"}
       /\ pc = "dead" => loads = 1
       /\ ran["FitRankModel"] = 0
       /\ \A i \in 1..Len(published.rank) : published.rank[i].at < now
       /\ rankModelVersion = AsInt(initVersion.rank + Len(published.rank))
       /\ ~WrittenNow(LastFitRankModelTime)
  /\ dataSet = "empty" =>
       /\ pc = "sleep"
       /\ \A j \in CFJobs : ran[j] = 0
       /\ \A i \in 1..Len(published.match) : published.match[i].at < now
       /\ matchModelVersion = AsInt(initVersion.match + Len(published.match))
       /\ ~WrittenNow(LastFitCFModelTime) /\ ~WrittenNow(CollectPopularTime)
       /\ ~WrittenNow(CollectLatestTime) /\ ~WrittenNow(CollectSimilarTime)
       /\ \A x \in ListSpaces : cacheLists[x] # now

\* An iteration after the first has found both datasets empty with all five
\* jobs due, and has reached its sleep.
C15_Witness ==
  /\ pc = "sleep" /\ now > 0
  /\ rankDataSet = "empty" /\ dataSet = "empty"
  /\ stale.rank /\ stale.cf /\ stale.pop
  /\ Len(published.rank) = 1 /\ Len(published.match) = 1


\* C20: the Loop goroutine holds a slot's mutex only between storing the new
\* artifact and raising the version: not while a fit job trains, and not
\* while it writes the fit time and the version to the CacheStore.
C20_MutexOnlyForPublish ==
  /\ rankModelMutex = "loop" <=> pc = "rankIncr"
  /\ matchModelMutex = "loop" <=> pc = "cfIncr"
  /\ pc \in {"rankFit", "rankLock", "rankMeta"} => rankModelMutex \in {"free", "rpc"}
  /\ pc \in {"cfFit", "cfLock", "cfMeta"} => matchModelMutex \in {"free", "rpc"}

\* While FitRankModel has trained the second model and not yet published it,
\* GetRankModel has taken the mutex and returned the first model.
C20_Witness ==
  /\ pc = "rankLock" /\ nextModel = 2
  /\ resp.call = "GetRankModel" /\ ~resp.err
  /\ resp.saw = 1 /\ resp.version = published.rank[1].version
  /\ rankModelMutex = "free"


\* The ids PopAll returned.
TopOutIds == {topOut[p] : p \in 1..Len(topOut)}

\* C19: what PopAll returns after any pushes into an accumulator of capacity
\* K: each id at most once; K ids, or every id pushed when fewer than K ids
\* were pushed; only ids that were pushed; no id whose highest pushed score
\* is strictly lower than that of an id left out; highest score first.
C19_TopKHighest ==
  topPc = "popped" =>
    LET pushedIds == {x \in TopIds : topSeen[x] > 0} IN
    /\ \A p, q \in 1..Len(topOut) : p < q => topOut[p] # topOut[q]
    /\ TopOutIds \subseteq pushedIds
    /\ Len(topOut) = IF Cardinality(pushedIds) < topK
                       THEN Cardinality(pushedIds) ELSE topK
    /\ \A x \in TopOutIds : \A y \in pushedIds \ TopOutIds : topSeen[x] >= topSeen[y]
    /\ \A x \in TopOutIds : ScoreIn(topAcc, x) = topSeen[x]
    /\ \A p, q \in 1..Len(topOut) : p < q => topSeen[topOut[p]] >= topSeen[topOut[q]]

\* The pushes (A,5), (B,3), (C,5), (D,1) with K = 2 have yielded A and C.
C19_Witness ==
  /\ topPc = "popped" /\ topK = 2 /\ topCount = 4
  /\ topSeen = [x \in TopIds |->
                  CASE x = "A" -> 5 [] x = "B" -> 3 [] x = "C" -> 5 [] OTHER -> 1]
  /\ TopOutIds = {"A", "C"}


C17_ClockAfterAllLists ==
  simClock =>
    \A i \in SimItems : task[i] = "done" /\ simList[ToName(i)].set


\* The events of item id whose timestamp is later than now - timeWindow days.
Recent(id) ==
  Cardinality({k \in 1..Len(popFeedback) :
                 popFeedback[k].item = id /\ popFeedback[k].age < timeWindow})

\* C18: the list CollectPopItem stores under the global label "" holds,
\* without repeats and by falling count, min(K, number of items with recent
\* feedback) items, none of them with fewer recent events than an item left
\* out; no stored list of any label holds an item without recent feedback;
\* and the popular clock it writes is the current time, written after the
\* lists.
C18_PopularWindowTopK ==
  /\ popLists[""].state = "stored" =>
       LET list == popLists[""].list
           counted == {id \in PopIds : Recent(id) > 0}
       IN /\ Len(list) = IF Cardinality(counted) < numPopular
                           THEN Cardinality(counted) ELSE numPopular
          /\ \A p, q \in 1..Len(list) : p < q =>
               list[p] # list[q] /\ Recent(list[p]) >= Recent(list[q])
          /\ \A p \in 1..Len(list), id \in PopIds \ Range(list) :
               Recent(list[p]) >= Recent(id)
  /\ \A l \in PopLabelSpace : \A p \in 1..Len(popLists[l].list) :
       /\ Recent(popLists[l].list[p]) > 0
       /\ l = "" \/ l \in PopLabelsOf(popLists[l].list[p])
  /\ popClock # Absent =>
       /\ popClock = Now(popNow)
       /\ popPc = "done"
       /\ \A l \in PopLabelSpace : popFilters[l].exists => popLists[l].state # "none"
  /\ popPc \in {"clock", "done"} => popLists[""].state # "none"

\* NumPopular 1, a window of 7 days, events x one day old twice and y ten
\* days old: ["x"] is stored under "" and the clock reads the current time.
C18_Witness ==
  /\ numPopular = 1 /\ timeWindow = 7
  /\ popFeedback = <<[item |-> "x", age |-> 1], [item |-> "x", age |-> 1],
                     [item |-> "y", age |-> 10]>>
  /\ popLists[""] = [state |-> "stored", list |-> <<"x">>]
  /\ popNow = MaxNow
  /\ popClock = Now(MaxNow)


\* C21: while GetCluster holds nodesMutex no NodeUp or NodeDown changes
\* nodesMap, and every call that has started returns: a registration waiting
\* for its NodeUp, an expiry waiting for its NodeDown and a GetCluster inside
\* its range all finish.
C21_ExclusiveAndLive ==
  /\ [][nodesMutex = "GetCluster" => nodesMap' = nodesMap]_vars
  /\ \A addr \in Addrs : (reg[addr] # "") ~> (reg[addr] = "")
  /\ (sweep # NoItem) ~> (sweep = NoItem)
  /\ (gc.pc = "range") ~> (gc.pc = "idle" /\ nodesMutex = "free")

\* GetCluster holds nodesMutex while a registration's NodeUp and an expiry's
\* NodeDown both wait for it.
C21_Witness ==
  /\ nodesMutex = "GetCluster"
  /\ \E addr \in Addrs : reg[addr] # ""
  /\ sweep # NoItem


\* C22: the minutes Loop sleeps are the greatest common divisor of the five
\* refresh periods: they divide each period, no larger integer divides all
\* five, and so they exceed no period.
C22_SleepIsGCD ==
  /\ loopPeriod # 0 =>
       /\ \A q \in PeriodsOf(periods) : q % loopPeriod = 0
       /\ \A d \in 1..MaxPeriod :
            (\A q \in PeriodsOf(periods) : q % d = 0) => d <= loopPeriod
  /\ slept # 0 =>
       /\ slept = loopPeriod
       /\ \A q \in PeriodsOf(periods) : slept <= q

\* Periods of 4, 2, 4, 2 and 4 minutes: Loop has slept 2 minutes.
C22_Witness ==
  /\ periods = [cfFit |-> 4, rankFit |-> 2, similar |-> 4, popular |-> 2, latest |-> 4]
  /\ slept = 2


\* C23: on a clock text that is a timestamp, IsStale returns true when more
\* than timeLimit minutes have passed since the timestamp, and false when
\* exactly timeLimit minutes, or fewer, have passed.
C23_StaleIffStrictlyOlder ==
  (staleResult # "none" /\ staleText.kind = "time") =>
    LET elapsed == staleNow - staleText.val
    IN /\ elapsed > staleLimit * TicksPerMinute => staleResult = "stale"
       /\ elapsed = staleLimit * TicksPerMinute => staleResult = "fresh"
       /\ elapsed < staleLimit * TicksPerMinute => staleResult = "fresh"

\* Exactly one minute after the timestamp, against a limit of one minute:
\* IsStale has returned false.
C23_Witness ==
  /\ staleText = Now(1)
  /\ staleNow = 1 + TicksPerMinute
  /\ staleLimit = 1
  /\ staleResult = "fresh"


\* The users who gave feedback to both items.
Shared(i, j) == Range(itemFeedback[i]) \cap Range(itemFeedback[j])

\* C24: the list CollectSimilar stores under an item's id does not hold the
\* item itself, holds only ids of items that share a user with it, holds no
\* id twice and has at most NumSimilar entries; an item that shares a user
\* with no other item gets the empty list.
C24_NeighbourLists ==
  \A i \in SimItems :
    simList[ToName(i)].set =>
      LET list == simList[ToName(i)].list
      IN /\ ToName(i) \notin Range(list)
         /\ \A p \in 1..Len(list) :
              \E j \in SimItems \ {i} : list[p] = ToName(j) /\ Shared(i, j) # {}
         /\ \A p, q \in 1..Len(list) : p < q => list[p] # list[q]
         /\ Len(list) <= numSimilar
         /\ (\A j \in SimItems \ {i} : Shared(i, j) = {}) => list = <<>>

\* Items 0 and 1 share user 0 and item 2 has user 1 to itself: with
\* NumSimilar 1 the list of item 0 is item 1 and the list of item 2 is
\* stored empty.
C24_Witness ==
  /\ numSimilar = 1
  /\ itemFeedback[0] = <<0>> /\ itemFeedback[1] = <<0>> /\ itemFeedback[2] = <<1>>
  /\ simList[ToName(0)] = [set |-> TRUE, list |-> <<ToName(1)>>]
  /\ simList[ToName(2)] = [set |-> TRUE, list |-> <<>>]


C26_CachedVersionIsSlotVersion ==
  pc \in {"sleep", "check"} =>
    /\ rankModel # NilModel =>
         cacheStore[LatestRankModelVersion] = Hex(rankModelVersion)
    /\ cfModel # NilModel =>
         cacheStore[LatestCFModelVersion] = Hex(matchModelVersion)


\* The records of the collection the reader asked for.
Wanted == {k \in pgStore : pgType # "" => k.type = pgType}

\* C27 as the spec states it: the reader stops after finitely many calls,
\* and when it has stopped it has been given every stored record of the
\* collection (of the feedback type asked for) once, in rising key order.
C27_PagesComplete ==
  /\ pgCalls <= Cardinality(pgStore) + 1
  /\ pgPc = "done" => pgOut = Sorted(Wanted)


\* C28: every value nodesMap holds is "server" or "worker", and GetCluster
\* never takes its default branch, the fatal 'unknown node'.
C28_RolesKnown ==
  /\ \A a \in Addrs : nodesMap[a] # "" => nodesMap[a] \in {ServerNode, WorkerNode}
  /\ gc.pc # "fatal"
  /\ \A a \in Addrs : reg[a] \in {"", ServerNode, WorkerNode}
  /\ sweep # NoItem => sweep.data \in {ServerNode, WorkerNode}

\* After an expiry and a new registration, GetCluster has ranged over a
\* server and a worker and took the default branch for neither.
C28_Witness ==
  /\ gc.pc = "range"
  /\ gc.seen = Addrs
  /\ Len(gc.servers) = 1 /\ Len(gc.workers) = 1
  /\ \E a \in Addrs : Len(notes[a]) >= 3


\* The publishes after which a counter that started at v0 reads 0 again.
WrapAt(v0) == (MaxInt - MinInt + 1) - v0

\* C29 as the spec states it: a response for a slot that has been published
\* to never carries version 0.
C29_NeverZeroOncePublished ==
  (resp.call # "none" /\ ~resp.err /\ resp.pubs > 0) => resp.version # 0

\* C29, amended: a slot that has been published to holds a model ever
\* after, whatever fits fail later; a response for it carries the model and
\* the initial value of the counter plus the number of publishes, as a Go
\* int, which is not 0 before the counter has wrapped round to 0; and a step
\* that changes one slot's model or version leaves the other slot's alone.
C29_PublishedStaysTrained ==
  /\ [](/\ published.rank # <<>> => rankModel # NilModel
        /\ published.match # <<>> => cfModel # NilModel
        /\ (resp.call # "none" /\ ~resp.err /\ resp.pubs > 0) =>
             /\ resp.saw # NilModel
             /\ resp.version = AsInt(initVersion[SlotOf(resp.call)] + resp.pubs)
             /\ resp.pubs < WrapAt(initVersion[SlotOf(resp.call)]) => resp.version # 0)
  /\ [][/\ (rankModel' # rankModel \/ rankModelVersion' # rankModelVersion) =>
             (cfModel' = cfModel /\ matchModelVersion' = matchModelVersion)
        /\ (cfModel' # cfModel \/ matchModelVersion' # matchModelVersion) =>
             (rankModel' = rankModel /\ rankModelVersion' = rankModelVersion)]_vars

\* GetRankModelVersion has answered with a version that is not 0 for the rank
\* slot after its second publish, the match slot having been published to
\* and a fit job having failed.
C29_Witness ==
  /\ resp.call = "GetRankModelVersion" /\ ~resp.err
  /\ resp.pubs = 2 /\ resp.version # 0
  /\ published.match # <<>>
  /\ lastJob.outcome = "failed"


\* C30: CollectSimilar ends for every item count and pool size, with more
\* items than the progress channel buffers too: no worker sends on the
\* closed channel, the channel is closed once and only when every worker has
\* returned, every send on it completes, the reporter returns after the
\* close, and CollectSimilar returns.
C30_ProgressTerminates ==
  /\ [](/\ progPc # "panic"
        /\ closes <= 1
        /\ completed.closed <=> closes = 1
        /\ completed.closed => \A w \in 1..MaxJobs : worker[w] = "returned"
        /\ reporter = "returned" => (completed.closed /\ completedCount = sent))
  /\ \A w \in 1..MaxJobs : (worker[w] = "send") ~> (worker[w] = "idle")
  /\ <>[](progPc = "done" /\ reporter = "returned" /\ closes = 1)

\* Two workers have stored the lists of more items than the channel
\* buffers, one of them reached its send with the buffer full, and
\* CollectSimilar has returned with the reporter gone.
C30_Witness ==
  /\ progPc = "done" /\ reporter = "returned"
  /\ progItems = MaxItems /\ progJobs = MaxJobs
  /\ sent = MaxItems /\ sent > ChanSize
  /\ completedCount = sent
  /\ parked


\* The three collection jobs: the list size, the clock, the list space and
\* the staleness flag of each.
CollectionJobs ==
  { [size |-> cfg.numPopular, key |-> CollectPopularTime, space |-> PopularItems,
     flag |-> "pop"],
    [size |-> cfg.numLatest, key |-> CollectLatestTime, space |-> LatestItems,
     flag |-> "latest"],
    [size |-> cfg.numSimilar, key |-> CollectSimilarTime, space |-> SimilarItems,
     flag |-> "similar"] }

\* The positions of Loop past the test of line 289 in an iteration.
PastLoadTest == {"popular", "latest", "similar", "cfFit", "cfLock", "cfIncr",
                 "cfMeta", "sleep"}

\* C31: a collection job whose list size is not positive writes no list and
\* never sets its clock; its clock holding no timestamp, the job is found
\* stale by every iteration that gets past its IsStale calls, and every
\* iteration that gets to line 289 loads the full dataset, once, whatever the
\* other clocks and the models are.
C31_DisabledJobForcesReload ==
  \A j \in CollectionJobs :
    j.size <= 0 =>
      /\ cacheLists[j.space] = -1
      /\ cacheStore[j.key].kind # "time"
      /\ pc \notin {"check", "dead"} => (stale[j.flag] /\ NeedLoad(stale, cfModel))
      /\ pc \in PastLoadTest => loads = 1

\* In a later iteration CollectPopItem and CollectSimilar, both disabled, are
\* the only stale jobs: the clocks of CollectLatest and of the two fits are
\* fresh and both models exist, the dataset was loaded again, and
\* CollectPopItem has returned without a write.
C31_Witness ==
  /\ now > 0
  /\ cfg.numPopular = 0 /\ cfg.numSimilar = 0
  /\ stale = [pop |-> TRUE, latest |-> FALSE, similar |-> TRUE,
              rank |-> FALSE, cf |-> FALSE]
  /\ rankModel # NilModel /\ cfModel # NilModel
  /\ pc = "latest" /\ loads = 1 /\ dataSet = "loaded"
  /\ lastJob.job = "CollectPopItem" /\ lastJob.outcome = "disabled"
  /\ cacheStore[CollectPopularTime] = Absent

====
